---- MODULE Spec2Model ----
(***************************************************************************)
(* Model of gqss: Smith-Waterman local alignment with a linear gap penalty *)
(* (linear_gap_smith_waterman.c, stored in src/gqss_file_io.c lines        *)
(* 773-963), the example program (src/unnamed/part_002) and the driver     *)
(* ednafull_linear_smith_waterman.c.                                       *)
(*                                                                         *)
(* Characters are ASCII codes.  A C string is the sequence of its bytes    *)
(* without the terminating NUL; C offset k is TLA+ index k + 1.            *)
(***************************************************************************)
EXTENDS Integers, Sequences, FiniteSets, TLC

\* ---------------------------------------------------------------- bounds
\* longest bounded reference and longest bounded read
MaxLenX == 3
MaxLenY == 2
\* largest dimension and largest cell value of the matrices handed to the
\* best-cell locator on its own
MaxDim == 2
MaxVal == 1
\* longest sequence handed to get_reverse_complement on its own
MaxRcLen == 2
\* largest number of reads in a FASTQ file
MaxReads == 2
\* longest FASTA text handed to extract_fasta_sequence on its own
MaxFastaLen == 6
MaxTraceLen == 3
MaxAlignmentLen == 101
\* bytes of a FASTQ text given to the read loop line by line
MaxLineText == 4

\* ------------------------------------------------------------ characters
NUL == 0
GAP == 45
\* ASCII codes of the base letters used below
Ord ==
  [A |-> 65, B |-> 66, C |-> 67, D |-> 68, G |-> 71, H |-> 72, K |-> 75,
   M |-> 77, N |-> 78, R |-> 82, S |-> 83, T |-> 84, U |-> 85, V |-> 86,
   W |-> 87, Y |-> 89]
\* 'a' - 'A'
LowerOffset == 32

\* the sequence alphabet of the data model, upper case
UpperBases ==
  {Ord.A, Ord.C, Ord.G, Ord.T, Ord.N, Ord.B, Ord.D, Ord.H, Ord.K, Ord.M,
   Ord.R, Ord.S, Ord.V, Ord.W, Ord.Y, Ord.U}
SequenceAlphabet == UpperBases \cup {c + LowerOffset : c \in UpperBases}

\* all sequences over alphabet S of length lo..hi
SeqsOf(S, lo, hi) == UNION {[1..n -> S] : n \in lo..hi}

\* --------------------------------------------------- substitution matrix
\* static const int64_t EDNAFULL_NUC_4_4[8100]
EDNAFULL_NUC_4_4 ==
  <<
  0, 0, 0, 0, 0, 0, 0, 0, 0, 0, 0, 0, 0, 0, 0, 0, 0, 0, 0, 0, 0, 0, 0, 0, 0, 0, 0, 0, 0, 0, 0, 0, 0, 0, 0, 0, 0, 0, 0, 0, 0, 0, 0, 0, 0, 0, 0, 0, 0, 0, 0, 0, 0, 0, 0, 0, 0, 0, 0, 0, 0, 0, 0, 0, 0, 0, 0, 0, 0, 0, 0, 0, 0, 0, 0, 0, 0, 0, 0, 0, 0, 0, 0, 0, 0, 0, 0, 0, 0, 0,
  0, 0, 0, 0, 0, 0, 0, 0, 0, 0, 0, 0, 0, 0, 0, 0, 0, 0, 0, 0, 0, 0, 0, 0, 0, 0, 0, 0, 0, 0, 0, 0, 0, 0, 0, 0, 0, 0, 0, 0, 0, 0, 0, 0, 0, 0, 0, 0, 0, 0, 0, 0, 0, 0, 0, 0, 0, 0, 0, 0, 0, 0, 0, 0, 0, 0, 0, 0, 0, 0, 0, 0, 0, 0, 0, 0, 0, 0, 0, 0, 0, 0, 0, 0, 0, 0, 0, 0, 0, 0,
  0, 0, 0, 0, 0, 0, 0, 0, 0, 0, 0, 0, 0, 0, 0, 0, 0, 0, 0, 0, 0, 0, 0, 0, 0, 0, 0, 0, 0, 0, 0, 0, 0, 0, 0, 0, 0, 0, 0, 0, 0, 0, 0, 0, 0, 0, 0, 0, 0, 0, 0, 0, 0, 0, 0, 0, 0, 0, 0, 0, 0, 0, 0, 0, 0, 0, 0, 0, 0, 0, 0, 0, 0, 0, 0, 0, 0, 0, 0, 0, 0, 0, 0, 0, 0, 0, 0, 0, 0, 0,
  0, 0, 0, 0, 0, 0, 0, 0, 0, 0, 0, 0, 0, 0, 0, 0, 0, 0, 0, 0, 0, 0, 0, 0, 0, 0, 0, 0, 0, 0, 0, 0, 0, 0, 0, 0, 0, 0, 0, 0, 0, 0, 0, 0, 0, 0, 0, 0, 0, 0, 0, 0, 0, 0, 0, 0, 0, 0, 0, 0, 0, 0, 0, 0, 0, 0, 0, 0, 0, 0, 0, 0, 0, 0, 0, 0, 0, 0, 0, 0, 0, 0, 0, 0, 0, 0, 0, 0, 0, 0,
  0, 0, 0, 0, 0, 0, 0, 0, 0, 0, 0, 0, 0, 0, 0, 0, 0, 0, 0, 0, 0, 0, 0, 0, 0, 0, 0, 0, 0, 0, 0, 0, 0, 0, 0, 0, 0, 0, 0, 0, 0, 0, 0, 0, 0, 0, 0, 0, 0, 0, 0, 0, 0, 0, 0, 0, 0, 0, 0, 0, 0, 0, 0, 0, 0, 0, 0, 0, 0, 0, 0, 0, 0, 0, 0, 0, 0, 0, 0, 0, 0, 0, 0, 0, 0, 0, 0, 0, 0, 0,
  0, 0, 0, 0, 0, 0, 0, 0, 0, 0, 0, 0, 0, 0, 0, 0, 0, 0, 0, 0, 0, 0, 0, 0, 0, 0, 0, 0, 0, 0, 0, 0, 0, 0, 0, 0, 0, 0, 0, 0, 0, 0, 0, 0, 0, 0, 0, 0, 0, 0, 0, 0, 0, 0, 0, 0, 0, 0, 0, 0, 0, 0, 0, 0, 0, 0, 0, 0, 0, 0, 0, 0, 0, 0, 0, 0, 0, 0, 0, 0, 0, 0, 0, 0, 0, 0, 0, 0, 0, 0,
  0, 0, 0, 0, 0, 0, 0, 0, 0, 0, 0, 0, 0, 0, 0, 0, 0, 0, 0, 0, 0, 0, 0, 0, 0, 0, 0, 0, 0, 0, 0, 0, 0, 0, 0, 0, 0, 0, 0, 0, 0, 0, 0, 0, 0, 0, 0, 0, 0, 0, 0, 0, 0, 0, 0, 0, 0, 0, 0, 0, 0, 0, 0, 0, 0, 0, 0, 0, 0, 0, 0, 0, 0, 0, 0, 0, 0, 0, 0, 0, 0, 0, 0, 0, 0, 0, 0, 0, 0, 0,
  0, 0, 0, 0, 0, 0, 0, 0, 0, 0, 0, 0, 0, 0, 0, 0, 0, 0, 0, 0, 0, 0, 0, 0, 0, 0, 0, 0, 0, 0, 0, 0, 0, 0, 0, 0, 0, 0, 0, 0, 0, 0, 0, 0, 0, 0, 0, 0, 0, 0, 0, 0, 0, 0, 0, 0, 0, 0, 0, 0, 0, 0, 0, 0, 0, 0, 0, 0, 0, 0, 0, 0, 0, 0, 0, 0, 0, 0, 0, 0, 0, 0, 0, 0, 0, 0, 0, 0, 0, 0,
  0, 0, 0, 0, 0, 0, 0, 0, 0, 0, 0, 0, 0, 0, 0, 0, 0, 0, 0, 0, 0, 0, 0, 0, 0, 0, 0, 0, 0, 0, 0, 0, 0, 0, 0, 0, 0, 0, 0, 0, 0, 0, 0, 0, 0, 0, 0, 0, 0, 0, 0, 0, 0, 0, 0, 0, 0, 0, 0, 0, 0, 0, 0, 0, 0, 0, 0, 0, 0, 0, 0, 0, 0, 0, 0, 0, 0, 0, 0, 0, 0, 0, 0, 0, 0, 0, 0, 0, 0, 0,
  0, 0, 0, 0, 0, 0, 0, 0, 0, 0, 0, 0, 0, 0, 0, 0, 0, 0, 0, 0, 0, 0, 0, 0, 0, 0, 0, 0, 0, 0, 0, 0, 0, 0, 0, 0, 0, 0, 0, 0, 0, 0, 0, 0, 0, 0, 0, 0, 0, 0, 0, 0, 0, 0, 0, 0, 0, 0, 0, 0, 0, 0, 0, 0, 0, 0, 0, 0, 0, 0, 0, 0, 0, 0, 0, 0, 0, 0, 0, 0, 0, 0, 0, 0, 0, 0, 0, 0, 0, 0,
  0, 0, 0, 0, 0, 0, 0, 0, 0, 0, 0, 0, 0, 0, 0, 0, 0, 0, 0, 0, 0, 0, 0, 0, 0, 0, 0, 0, 0, 0, 0, 0, 0, 0, 0, 0, 0, 0, 0, 0, 0, 0, 0, 0, 0, 0, 0, 0, 0, 0, 0, 0, 0, 0, 0, 0, 0, 0, 0, 0, 0, 0, 0, 0, 0, 0, 0, 0, 0, 0, 0, 0, 0, 0, 0, 0, 0, 0, 0, 0, 0, 0, 0, 0, 0, 0, 0, 0, 0, 0,
  0, 0, 0, 0, 0, 0, 0, 0, 0, 0, 0, 0, 0, 0, 0, 0, 0, 0, 0, 0, 0, 0, 0, 0, 0, 0, 0, 0, 0, 0, 0, 0, 0, 0, 0, 0, 0, 0, 0, 0, 0, 0, 0, 0, 0, 0, 0, 0, 0, 0, 0, 0, 0, 0, 0, 0, 0, 0, 0, 0, 0, 0, 0, 0, 0, 0, 0, 0, 0, 0, 0, 0, 0, 0, 0, 0, 0, 0, 0, 0, 0, 0, 0, 0, 0, 0, 0, 0, 0, 0,
  0, 0, 0, 0, 0, 0, 0, 0, 0, 0, 0, 0, 0, 0, 0, 0, 0, 0, 0, 0, 0, 0, 0, 0, 0, 0, 0, 0, 0, 0, 0, 0, 0, 0, 0, 0, 0, 0, 0, 0, 0, 0, 0, 0, 0, 0, 0, 0, 0, 0, 0, 0, 0, 0, 0, 0, 0, 0, 0, 0, 0, 0, 0, 0, 0, 0, 0, 0, 0, 0, 0, 0, 0, 0, 0, 0, 0, 0, 0, 0, 0, 0, 0, 0, 0, 0, 0, 0, 0, 0,
  0, 0, 0, 0, 0, 0, 0, 0, 0, 0, 0, 0, 0, 0, 0, 0, 0, 0, 0, 0, 0, 0, 0, 0, 0, 0, 0, 0, 0, 0, 0, 0, 0, 0, 0, 0, 0, 0, 0, 0, 0, 0, 0, 0, 0, 0, 0, 0, 0, 0, 0, 0, 0, 0, 0, 0, 0, 0, 0, 0, 0, 0, 0, 0, 0, 0, 0, 0, 0, 0, 0, 0, 0, 0, 0, 0, 0, 0, 0, 0, 0, 0, 0, 0, 0, 0, 0, 0, 0, 0,
  0, 0, 0, 0, 0, 0, 0, 0, 0, 0, 0, 0, 0, 0, 0, 0, 0, 0, 0, 0, 0, 0, 0, 0, 0, 0, 0, 0, 0, 0, 0, 0, 0, 0, 0, 0, 0, 0, 0, 0, 0, 0, 0, 0, 0, 0, 0, 0, 0, 0, 0, 0, 0, 0, 0, 0, 0, 0, 0, 0, 0, 0, 0, 0, 0, 0, 0, 0, 0, 0, 0, 0, 0, 0, 0, 0, 0, 0, 0, 0, 0, 0, 0, 0, 0, 0, 0, 0, 0, 0,
  0, 0, 0, 0, 0, 0, 0, 0, 0, 0, 0, 0, 0, 0, 0, 0, 0, 0, 0, 0, 0, 0, 0, 0, 0, 0, 0, 0, 0, 0, 0, 0, 0, 0, 0, 0, 0, 0, 0, 0, 0, 0, 0, 0, 0, 0, 0, 0, 0, 0, 0, 0, 0, 0, 0, 0, 0, 0, 0, 0, 0, 0, 0, 0, 0, 0, 0, 0, 0, 0, 0, 0, 0, 0, 0, 0, 0, 0, 0, 0, 0, 0, 0, 0, 0, 0, 0, 0, 0, 0,
  0, 0, 0, 0, 0, 0, 0, 0, 0, 0, 0, 0, 0, 0, 0, 0, 0, 0, 0, 0, 0, 0, 0, 0, 0, 0, 0, 0, 0, 0, 0, 0, 0, 0, 0, 0, 0, 0, 0, 0, 0, 0, 0, 0, 0, 0, 0, 0, 0, 0, 0, 0, 0, 0, 0, 0, 0, 0, 0, 0, 0, 0, 0, 0, 0, 0, 0, 0, 0, 0, 0, 0, 0, 0, 0, 0, 0, 0, 0, 0, 0, 0, 0, 0, 0, 0, 0, 0, 0, 0,
  0, 0, 0, 0, 0, 0, 0, 0, 0, 0, 0, 0, 0, 0, 0, 0, 0, 0, 0, 0, 0, 0, 0, 0, 0, 0, 0, 0, 0, 0, 0, 0, 0, 0, 0, 0, 0, 0, 0, 0, 0, 0, 0, 0, 0, 0, 0, 0, 0, 0, 0, 0, 0, 0, 0, 0, 0, 0, 0, 0, 0, 0, 0, 0, 0, 0, 0, 0, 0, 0, 0, 0, 0, 0, 0, 0, 0, 0, 0, 0, 0, 0, 0, 0, 0, 0, 0, 0, 0, 0,
  0, 0, 0, 0, 0, 0, 0, 0, 0, 0, 0, 0, 0, 0, 0, 0, 0, 0, 0, 0, 0, 0, 0, 0, 0, 0, 0, 0, 0, 0, 0, 0, 0, 0, 0, 0, 0, 0, 0, 0, 0, 0, 0, 0, 0, 0, 0, 0, 0, 0, 0, 0, 0, 0, 0, 0, 0, 0, 0, 0, 0, 0, 0, 0, 0, 0, 0, 0, 0, 0, 0, 0, 0, 0, 0, 0, 0, 0, 0, 0, 0, 0, 0, 0, 0, 0, 0, 0, 0, 0,
  0, 0, 0, 0, 0, 0, 0, 0, 0, 0, 0, 0, 0, 0, 0, 0, 0, 0, 0, 0, 0, 0, 0, 0, 0, 0, 0, 0, 0, 0, 0, 0, 0, 0, 0, 0, 0, 0, 0, 0, 0, 0, 0, 0, 0, 0, 0, 0, 0, 0, 0, 0, 0, 0, 0, 0, 0, 0, 0, 0, 0, 0, 0, 0, 0, 0, 0, 0, 0, 0, 0, 0, 0, 0, 0, 0, 0, 0, 0, 0, 0, 0, 0, 0, 0, 0, 0, 0, 0, 0,
  0, 0, 0, 0, 0, 0, 0, 0, 0, 0, 0, 0, 0, 0, 0, 0, 0, 0, 0, 0, 0, 0, 0, 0, 0, 0, 0, 0, 0, 0, 0, 0, 0, 0, 0, 0, 0, 0, 0, 0, 0, 0, 0, 0, 0, 0, 0, 0, 0, 0, 0, 0, 0, 0, 0, 0, 0, 0, 0, 0, 0, 0, 0, 0, 0, 0, 0, 0, 0, 0, 0, 0, 0, 0, 0, 0, 0, 0, 0, 0, 0, 0, 0, 0, 0, 0, 0, 0, 0, 0,
  0, 0, 0, 0, 0, 0, 0, 0, 0, 0, 0, 0, 0, 0, 0, 0, 0, 0, 0, 0, 0, 0, 0, 0, 0, 0, 0, 0, 0, 0, 0, 0, 0, 0, 0, 0, 0, 0, 0, 0, 0, 0, 0, 0, 0, 0, 0, 0, 0, 0, 0, 0, 0, 0, 0, 0, 0, 0, 0, 0, 0, 0, 0, 0, 0, 0, 0, 0, 0, 0, 0, 0, 0, 0, 0, 0, 0, 0, 0, 0, 0, 0, 0, 0, 0, 0, 0, 0, 0, 0,
  0, 0, 0, 0, 0, 0, 0, 0, 0, 0, 0, 0, 0, 0, 0, 0, 0, 0, 0, 0, 0, 0, 0, 0, 0, 0, 0, 0, 0, 0, 0, 0, 0, 0, 0, 0, 0, 0, 0, 0, 0, 0, 0, 0, 0, 0, 0, 0, 0, 0, 0, 0, 0, 0, 0, 0, 0, 0, 0, 0, 0, 0, 0, 0, 0, 0, 0, 0, 0, 0, 0, 0, 0, 0, 0, 0, 0, 0, 0, 0, 0, 0, 0, 0, 0, 0, 0, 0, 0, 0,
  0, 0, 0, 0, 0, 0, 0, 0, 0, 0, 0, 0, 0, 0, 0, 0, 0, 0, 0, 0, 0, 0, 0, 0, 0, 0, 0, 0, 0, 0, 0, 0, 0, 0, 0, 0, 0, 0, 0, 0, 0, 0, 0, 0, 0, 0, 0, 0, 0, 0, 0, 0, 0, 0, 0, 0, 0, 0, 0, 0, 0, 0, 0, 0, 0, 0, 0, 0, 0, 0, 0, 0, 0, 0, 0, 0, 0, 0, 0, 0, 0, 0, 0, 0, 0, 0, 0, 0, 0, 0,
  0, 0, 0, 0, 0, 0, 0, 0, 0, 0, 0, 0, 0, 0, 0, 0, 0, 0, 0, 0, 0, 0, 0, 0, 0, 0, 0, 0, 0, 0, 0, 0, 0, 0, 0, 0, 0, 0, 0, 0, 0, 0, 0, 0, 0, 0, 0, 0, 0, 0, 0, 0, 0, 0, 0, 0, 0, 0, 0, 0, 0, 0, 0, 0, 0, 0, 0, 0, 0, 0, 0, 0, 0, 0, 0, 0, 0, 0, 0, 0, 0, 0, 0, 0, 0, 0, 0, 0, 0, 0,
  0, 0, 0, 0, 0, 0, 0, 0, 0, 0, 0, 0, 0, 0, 0, 0, 0, 0, 0, 0, 0, 0, 0, 0, 0, 0, 0, 0, 0, 0, 0, 0, 0, 0, 0, 0, 0, 0, 0, 0, 0, 0, 0, 0, 0, 0, 0, 0, 0, 0, 0, 0, 0, 0, 0, 0, 0, 0, 0, 0, 0, 0, 0, 0, 0, 0, 0, 0, 0, 0, 0, 0, 0, 0, 0, 0, 0, 0, 0, 0, 0, 0, 0, 0, 0, 0, 0, 0, 0, 0,
  0, 0, 0, 0, 0, 0, 0, 0, 0, 0, 0, 0, 0, 0, 0, 0, 0, 0, 0, 0, 0, 0, 0, 0, 0, 0, 0, 0, 0, 0, 0, 0, 0, 0, 0, 0, 0, 0, 0, 0, 0, 0, 0, 0, 0, 0, 0, 0, 0, 0, 0, 0, 0, 0, 0, 0, 0, 0, 0, 0, 0, 0, 0, 0, 0, 0, 0, 0, 0, 0, 0, 0, 0, 0, 0, 0, 0, 0, 0, 0, 0, 0, 0, 0, 0, 0, 0, 0, 0, 0,
  0, 0, 0, 0, 0, 0, 0, 0, 0, 0, 0, 0, 0, 0, 0, 0, 0, 0, 0, 0, 0, 0, 0, 0, 0, 0, 0, 0, 0, 0, 0, 0, 0, 0, 0, 0, 0, 0, 0, 0, 0, 0, 0, 0, 0, 0, 0, 0, 0, 0, 0, 0, 0, 0, 0, 0, 0, 0, 0, 0, 0, 0, 0, 0, 0, 0, 0, 0, 0, 0, 0, 0, 0, 0, 0, 0, 0, 0, 0, 0, 0, 0, 0, 0, 0, 0, 0, 0, 0, 0,
  0, 0, 0, 0, 0, 0, 0, 0, 0, 0, 0, 0, 0, 0, 0, 0, 0, 0, 0, 0, 0, 0, 0, 0, 0, 0, 0, 0, 0, 0, 0, 0, 0, 0, 0, 0, 0, 0, 0, 0, 0, 0, 0, 0, 0, 0, 0, 0, 0, 0, 0, 0, 0, 0, 0, 0, 0, 0, 0, 0, 0, 0, 0, 0, 0, 0, 0, 0, 0, 0, 0, 0, 0, 0, 0, 0, 0, 0, 0, 0, 0, 0, 0, 0, 0, 0, 0, 0, 0, 0,
  0, 0, 0, 0, 0, 0, 0, 0, 0, 0, 0, 0, 0, 0, 0, 0, 0, 0, 0, 0, 0, 0, 0, 0, 0, 0, 0, 0, 0, 0, 0, 0, 0, 0, 0, 0, 0, 0, 0, 0, 0, 0, 0, 0, 0, 0, 0, 0, 0, 0, 0, 0, 0, 0, 0, 0, 0, 0, 0, 0, 0, 0, 0, 0, 0, 0, 0, 0, 0, 0, 0, 0, 0, 0, 0, 0, 0, 0, 0, 0, 0, 0, 0, 0, 0, 0, 0, 0, 0, 0,
  0, 0, 0, 0, 0, 0, 0, 0, 0, 0, 0, 0, 0, 0, 0, 0, 0, 0, 0, 0, 0, 0, 0, 0, 0, 0, 0, 0, 0, 0, 0, 0, 0, 0, 0, 0, 0, 0, 0, 0, 0, 0, 0, 0, 0, 0, 0, 0, 0, 0, 0, 0, 0, 0, 0, 0, 0, 0, 0, 0, 0, 0, 0, 0, 0, 0, 0, 0, 0, 0, 0, 0, 0, 0, 0, 0, 0, 0, 0, 0, 0, 0, 0, 0, 0, 0, 0, 0, 0, 0,
  0, 0, 0, 0, 0, 0, 0, 0, 0, 0, 0, 0, 0, 0, 0, 0, 0, 0, 0, 0, 0, 0, 0, 0, 0, 0, 0, 0, 0, 0, 0, 0, 0, 0, 0, 0, 0, 0, 0, 0, 0, 0, 0, 0, 0, 0, 0, 0, 0, 0, 0, 0, 0, 0, 0, 0, 0, 0, 0, 0, 0, 0, 0, 0, 0, 0, 0, 0, 0, 0, 0, 0, 0, 0, 0, 0, 0, 0, 0, 0, 0, 0, 0, 0, 0, 0, 0, 0, 0, 0,
  0, 0, 0, 0, 0, 0, 0, 0, 0, 0, 0, 0, 0, 0, 0, 0, 0, 0, 0, 0, 0, 0, 0, 0, 0, 0, 0, 0, 0, 0, 0, 0, 0, 0, 0, 0, 0, 0, 0, 0, 0, 0, 0, 0, 0, 0, 0, 0, 0, 0, 0, 0, 0, 0, 0, 0, 0, 0, 0, 0, 0, 0, 0, 0, 0, 0, 0, 0, 0, 0, 0, 0, 0, 0, 0, 0, 0, 0, 0, 0, 0, 0, 0, 0, 0, 0, 0, 0, 0, 0,
  0, 0, 0, 0, 0, 0, 0, 0, 0, 0, 0, 0, 0, 0, 0, 0, 0, 0, 0, 0, 0, 0, 0, 0, 0, 0, 0, 0, 0, 0, 0, 0, 0, 0, 0, 0, 0, 0, 0, 0, 0, 0, 0, 0, 0, 0, 0, 0, 0, 0, 0, 0, 0, 0, 0, 0, 0, 0, 0, 0, 0, 0, 0, 0, 0, 0, 0, 0, 0, 0, 0, 0, 0, 0, 0, 0, 0, 0, 0, 0, 0, 0, 0, 0, 0, 0, 0, 0, 0, 0,
  0, 0, 0, 0, 0, 0, 0, 0, 0, 0, 0, 0, 0, 0, 0, 0, 0, 0, 0, 0, 0, 0, 0, 0, 0, 0, 0, 0, 0, 0, 0, 0, 0, 0, 0, 0, 0, 0, 0, 0, 0, 0, 0, 0, 0, 0, 0, 0, 0, 0, 0, 0, 0, 0, 0, 0, 0, 0, 0, 0, 0, 0, 0, 0, 0, 0, 0, 0, 0, 0, 0, 0, 0, 0, 0, 0, 0, 0, 0, 0, 0, 0, 0, 0, 0, 0, 0, 0, 0, 0,
  0, 0, 0, 0, 0, 0, 0, 0, 0, 0, 0, 0, 0, 0, 0, 0, 0, 0, 0, 0, 0, 0, 0, 0, 0, 0, 0, 0, 0, 0, 0, 0, 0, 0, 0, 0, 0, 0, 0, 0, 0, 0, 0, 0, 0, 0, 0, 0, 0, 0, 0, 0, 0, 0, 0, 0, 0, 0, 0, 0, 0, 0, 0, 0, 0, 0, 0, 0, 0, 0, 0, 0, 0, 0, 0, 0, 0, 0, 0, 0, 0, 0, 0, 0, 0, 0, 0, 0, 0, 0,
  0, 0, 0, 0, 0, 0, 0, 0, 0, 0, 0, 0, 0, 0, 0, 0, 0, 0, 0, 0, 0, 0, 0, 0, 0, 0, 0, 0, 0, 0, 0, 0, 0, 0, 0, 0, 0, 0, 0, 0, 0, 0, 0, 0, 0, 0, 0, 0, 0, 0, 0, 0, 0, 0, 0, 0, 0, 0, 0, 0, 0, 0, 0, 0, 0, 0, 0, 0, 0, 0, 0, 0, 0, 0, 0, 0, 0, 0, 0, 0, 0, 0, 0, 0, 0, 0, 0, 0, 0, 0,
  0, 0, 0, 0, 0, 0, 0, 0, 0, 0, 0, 0, 0, 0, 0, 0, 0, 0, 0, 0, 0, 0, 0, 0, 0, 0, 0, 0, 0, 0, 0, 0, 0, 0, 0, 0, 0, 0, 0, 0, 0, 0, 0, 0, 0, 0, 0, 0, 0, 0, 0, 0, 0, 0, 0, 0, 0, 0, 0, 0, 0, 0, 0, 0, 0, 0, 0, 0, 0, 0, 0, 0, 0, 0, 0, 0, 0, 0, 0, 0, 0, 0, 0, 0, 0, 0, 0, 0, 0, 0,
  0, 0, 0, 0, 0, 0, 0, 0, 0, 0, 0, 0, 0, 0, 0, 0, 0, 0, 0, 0, 0, 0, 0, 0, 0, 0, 0, 0, 0, 0, 0, 0, 0, 0, 0, 0, 0, 0, 0, 0, 0, 0, 0, 0, 0, 0, 0, 0, 0, 0, 0, 0, 0, 0, 0, 0, 0, 0, 0, 0, 0, 0, 0, 0, 0, 0, 0, 0, 0, 0, 0, 0, 0, 0, 0, 0, 0, 0, 0, 0, 0, 0, 0, 0, 0, 0, 0, 0, 0, 0,
  0, 0, 0, 0, 0, 0, 0, 0, 0, 0, 0, 0, 0, 0, 0, 0, 0, 0, 0, 0, 0, 0, 0, 0, 0, 0, 0, 0, 0, 0, 0, 0, 0, 0, 0, 0, 0, 0, 0, 0, 0, 0, 0, 0, 0, 0, 0, 0, 0, 0, 0, 0, 0, 0, 0, 0, 0, 0, 0, 0, 0, 0, 0, 0, 0, 0, 0, 0, 0, 0, 0, 0, 0, 0, 0, 0, 0, 0, 0, 0, 0, 0, 0, 0, 0, 0, 0, 0, 0, 0,
  0, 0, 0, 0, 0, 0, 0, 0, 0, 0, 0, 0, 0, 0, 0, 0, 0, 0, 0, 0, 0, 0, 0, 0, 0, 0, 0, 0, 0, 0, 0, 0, 0, 0, 0, 0, 0, 0, 0, 0, 0, 0, 0, 0, 0, 0, 0, 0, 0, 0, 0, 0, 0, 0, 0, 0, 0, 0, 0, 0, 0, 0, 0, 0, 0, 0, 0, 0, 0, 0, 0, 0, 0, 0, 0, 0, 0, 0, 0, 0, 0, 0, 0, 0, 0, 0, 0, 0, 0, 0,
  0, 0, 0, 0, 0, 0, 0, 0, 0, 0, 0, 0, 0, 0, 0, 0, 0, 0, 0, 0, 0, 0, 0, 0, 0, 0, 0, 0, 0, 0, 0, 0, 0, 0, 0, 0, 0, 0, 0, 0, 0, 0, 0, 0, 0, 0, 0, 0, 0, 0, 0, 0, 0, 0, 0, 0, 0, 0, 0, 0, 0, 0, 0, 0, 0, 0, 0, 0, 0, 0, 0, 0, 0, 0, 0, 0, 0, 0, 0, 0, 0, 0, 0, 0, 0, 0, 0, 0, 0, 0,
  0, 0, 0, 0, 0, 0, 0, 0, 0, 0, 0, 0, 0, 0, 0, 0, 0, 0, 0, 0, 0, 0, 0, 0, 0, 0, 0, 0, 0, 0, 0, 0, 0, 0, 0, 0, 0, 0, 0, 0, 0, 0, 0, 0, 0, 0, 0, 0, 0, 0, 0, 0, 0, 0, 0, 0, 0, 0, 0, 0, 0, 0, 0, 0, 0, 0, 0, 0, 0, 0, 0, 0, 0, 0, 0, 0, 0, 0, 0, 0, 0, 0, 0, 0, 0, 0, 0, 0, 0, 0,
  0, 0, 0, 0, 0, 0, 0, 0, 0, 0, 0, 0, 0, 0, 0, 0, 0, 0, 0, 0, 0, 0, 0, 0, 0, 0, 0, 0, 0, 0, 0, 0, 0, 0, 0, 0, 0, 0, 0, 0, 0, 0, 0, 0, 0, 0, 0, 0, 0, 0, 0, 0, 0, 0, 0, 0, 0, 0, 0, 0, 0, 0, 0, 0, 0, 0, 0, 0, 0, 0, 0, 0, 0, 0, 0, 0, 0, 0, 0, 0, 0, 0, 0, 0, 0, 0, 0, 0, 0, 0,
  0, 0, 0, 0, 0, 0, 0, 0, 0, 0, 0, 0, 0, 0, 0, 0, 0, 0, 0, 0, 0, 0, 0, 0, 0, 0, 0, 0, 0, 0, 0, 0, 0, 0, 0, 0, 0, 0, 0, 0, 0, 0, 0, 0, 0, 0, 0, 0, 0, 0, 0, 0, 0, 0, 0, 0, 0, 0, 0, 0, 0, 0, 0, 0, 0, 0, 0, 0, 0, 0, 0, 0, 0, 0, 0, 0, 0, 0, 0, 0, 0, 0, 0, 0, 0, 0, 0, 0, 0, 0,
  0, 0, 0, 0, 0, 0, 0, 0, 0, 0, 0, 0, 0, 0, 0, 0, 0, 0, 0, 0, 0, 0, 0, 0, 0, 0, 0, 0, 0, 0, 0, 0, 0, 0, 0, 0, 0, 0, 0, 0, 0, 0, 0, 0, 0, 0, 0, 0, 0, 0, 0, 0, 0, 0, 0, 0, 0, 0, 0, 0, 0, 0, 0, 0, 0, 0, 0, 0, 0, 0, 0, 0, 0, 0, 0, 0, 0, 0, 0, 0, 0, 0, 0, 0, 0, 0, 0, 0, 0, 0,
  0, 0, 0, 0, 0, 0, 0, 0, 0, 0, 0, 0, 0, 0, 0, 0, 0, 0, 0, 0, 0, 0, 0, 0, 0, 0, 0, 0, 0, 0, 0, 0, 0, 0, 0, 0, 0, 0, 0, 0, 0, 0, 0, 0, 0, 0, 0, 0, 0, 0, 0, 0, 0, 0, 0, 0, 0, 0, 0, 0, 0, 0, 0, 0, 0, 0, 0, 0, 0, 0, 0, 0, 0, 0, 0, 0, 0, 0, 0, 0, 0, 0, 0, 0, 0, 0, 0, 0, 0, 0,
  0, 0, 0, 0, 0, 0, 0, 0, 0, 0, 0, 0, 0, 0, 0, 0, 0, 0, 0, 0, 0, 0, 0, 0, 0, 0, 0, 0, 0, 0, 0, 0, 0, 0, 0, 0, 0, 0, 0, 0, 0, 0, 0, 0, 0, 0, 0, 0, 0, 0, 0, 0, 0, 0, 0, 0, 0, 0, 0, 0, 0, 0, 0, 0, 0, 0, 0, 0, 0, 0, 0, 0, 0, 0, 0, 0, 0, 0, 0, 0, 0, 0, 0, 0, 0, 0, 0, 0, 0, 0,
  0, 0, 0, 0, 0, 0, 0, 0, 0, 0, 0, 0, 0, 0, 0, 0, 0, 0, 0, 0, 0, 0, 0, 0, 0, 0, 0, 0, 0, 0, 0, 0, 0, 0, 0, 0, 0, 0, 0, 0, 0, 0, 0, 0, 0, 0, 0, 0, 0, 0, 0, 0, 0, 0, 0, 0, 0, 0, 0, 0, 0, 0, 0, 0, 0, 0, 0, 0, 0, 0, 0, 0, 0, 0, 0, 0, 0, 0, 0, 0, 0, 0, 0, 0, 0, 0, 0, 0, 0, 0,
  0, 0, 0, 0, 0, 0, 0, 0, 0, 0, 0, 0, 0, 0, 0, 0, 0, 0, 0, 0, 0, 0, 0, 0, 0, 0, 0, 0, 0, 0, 0, 0, 0, 0, 0, 0, 0, 0, 0, 0, 0, 0, 0, 0, 0, 0, 0, 0, 0, 0, 0, 0, 0, 0, 0, 0, 0, 0, 0, 0, 0, 0, 0, 0, 0, 0, 0, 0, 0, 0, 0, 0, 0, 0, 0, 0, 0, 0, 0, 0, 0, 0, 0, 0, 0, 0, 0, 0, 0, 0,
  0, 0, 0, 0, 0, 0, 0, 0, 0, 0, 0, 0, 0, 0, 0, 0, 0, 0, 0, 0, 0, 0, 0, 0, 0, 0, 0, 0, 0, 0, 0, 0, 0, 0, 0, 0, 0, 0, 0, 0, 0, 0, 0, 0, 0, 0, 0, 0, 0, 0, 0, 0, 0, 0, 0, 0, 0, 0, 0, 0, 0, 0, 0, 0, 0, 0, 0, 0, 0, 0, 0, 0, 0, 0, 0, 0, 0, 0, 0, 0, 0, 0, 0, 0, 0, 0, 0, 0, 0, 0,
  0, 0, 0, 0, 0, 0, 0, 0, 0, 0, 0, 0, 0, 0, 0, 0, 0, 0, 0, 0, 0, 0, 0, 0, 0, 0, 0, 0, 0, 0, 0, 0, 0, 0, 0, 0, 0, 0, 0, 0, 0, 0, 0, 0, 0, 0, 0, 0, 0, 0, 0, 0, 0, 0, 0, 0, 0, 0, 0, 0, 0, 0, 0, 0, 0, 0, 0, 0, 0, 0, 0, 0, 0, 0, 0, 0, 0, 0, 0, 0, 0, 0, 0, 0, 0, 0, 0, 0, 0, 0,
  0, 0, 0, 0, 0, 0, 0, 0, 0, 0, 0, 0, 0, 0, 0, 0, 0, 0, 0, 0, 0, 0, 0, 0, 0, 0, 0, 0, 0, 0, 0, 0, 0, 0, 0, 0, 0, 0, 0, 0, 0, 0, 0, 0, 0, 0, 0, 0, 0, 0, 0, 0, 0, 0, 0, 0, 0, 0, 0, 0, 0, 0, 0, 0, 0, 0, 0, 0, 0, 0, 0, 0, 0, 0, 0, 0, 0, 0, 0, 0, 0, 0, 0, 0, 0, 0, 0, 0, 0, 0,
  0, 0, 0, 0, 0, 0, 0, 0, 0, 0, 0, 0, 0, 0, 0, 0, 0, 0, 0, 0, 0, 0, 0, 0, 0, 0, 0, 0, 0, 0, 0, 0, 0, 0, 0, 0, 0, 0, 0, 0, 0, 0, 0, 0, 0, 0, 0, 0, 0, 0, 0, 0, 0, 0, 0, 0, 0, 0, 0, 0, 0, 0, 0, 0, 0, 0, 0, 0, 0, 0, 0, 0, 0, 0, 0, 0, 0, 0, 0, 0, 0, 0, 0, 0, 0, 0, 0, 0, 0, 0,
  0, 0, 0, 0, 0, 0, 0, 0, 0, 0, 0, 0, 0, 0, 0, 0, 0, 0, 0, 0, 0, 0, 0, 0, 0, 0, 0, 0, 0, 0, 0, 0, 0, 0, 0, 0, 0, 0, 0, 0, 0, 0, 0, 0, 0, 0, 0, 0, 0, 0, 0, 0, 0, 0, 0, 0, 0, 0, 0, 0, 0, 0, 0, 0, 0, 0, 0, 0, 0, 0, 0, 0, 0, 0, 0, 0, 0, 0, 0, 0, 0, 0, 0, 0, 0, 0, 0, 0, 0, 0,
  0, 0, 0, 0, 0, 0, 0, 0, 0, 0, 0, 0, 0, 0, 0, 0, 0, 0, 0, 0, 0, 0, 0, 0, 0, 0, 0, 0, 0, 0, 0, 0, 0, 0, 0, 0, 0, 0, 0, 0, 0, 0, 0, 0, 0, 0, 0, 0, 0, 0, 0, 0, 0, 0, 0, 0, 0, 0, 0, 0, 0, 0, 0, 0, 0, 0, 0, 0, 0, 0, 0, 0, 0, 0, 0, 0, 0, 0, 0, 0, 0, 0, 0, 0, 0, 0, 0, 0, 0, 0,
  0, 0, 0, 0, 0, 0, 0, 0, 0, 0, 0, 0, 0, 0, 0, 0, 0, 0, 0, 0, 0, 0, 0, 0, 0, 0, 0, 0, 0, 0, 0, 0, 0, 0, 0, 0, 0, 0, 0, 0, 0, 0, 0, 0, 0, 0, 0, 0, 0, 0, 0, 0, 0, 0, 0, 0, 0, 0, 0, 0, 0, 0, 0, 0, 0, 0, 0, 0, 0, 0, 0, 0, 0, 0, 0, 0, 0, 0, 0, 0, 0, 0, 0, 0, 0, 0, 0, 0, 0, 0,
  0, 0, 0, 0, 0, 0, 0, 0, 0, 0, 0, 0, 0, 0, 0, 0, 0, 0, 0, 0, 0, 0, 0, 0, 0, 0, 0, 0, 0, 0, 0, 0, 0, 0, 0, 0, 0, 0, 0, 0, 0, 0, 0, 0, 0, 0, 0, 0, 0, 0, 0, 0, 0, 0, 0, 0, 0, 0, 0, 0, 0, 0, 0, 0, 0, 0, 0, 0, 0, 0, 0, 0, 0, 0, 0, 0, 0, 0, 0, 0, 0, 0, 0, 0, 0, 0, 0, 0, 0, 0,
  0, 0, 0, 0, 0, 0, 0, 0, 0, 0, 0, 0, 0, 0, 0, 0, 0, 0, 0, 0, 0, 0, 0, 0, 0, 0, 0, 0, 0, 0, 0, 0, 0, 0, 0, 0, 0, 0, 0, 0, 0, 0, 0, 0, 0, 0, 0, 0, 0, 0, 0, 0, 0, 0, 0, 0, 0, 0, 0, 0, 0, 0, 0, 0, 0, 0, 0, 0, 0, 0, 0, 0, 0, 0, 0, 0, 0, 0, 0, 0, 0, 0, 0, 0, 0, 0, 0, 0, 0, 0,
  0, 0, 0, 0, 0, 0, 0, 0, 0, 0, 0, 0, 0, 0, 0, 0, 0, 0, 0, 0, 0, 0, 0, 0, 0, 0, 0, 0, 0, 0, 0, 0, 0, 0, 0, 0, 0, 0, 0, 0, 0, 0, 0, 0, 0, 0, 0, 0, 0, 0, 0, 0, 0, 0, 0, 0, 0, 0, 0, 0, 0, 0, 0, 0, 0, 0, 0, 0, 0, 0, 0, 0, 0, 0, 0, 0, 0, 0, 0, 0, 0, 0, 0, 0, 0, 0, 0, 0, 0, 0,
  0, 0, 0, 0, 0, 0, 0, 0, 0, 0, 0, 0, 0, 0, 0, 0, 0, 0, 0, 0, 0, 0, 0, 0, 0, 0, 0, 0, 0, 0, 0, 0, 0, 0, 0, 0, 0, 0, 0, 0, 0, 0, 0, 0, 0, 0, 0, 0, 0, 0, 0, 0, 0, 0, 0, 0, 0, 0, 0, 0, 0, 0, 0, 0, 0, 0, 0, 0, 0, 0, 0, 0, 0, 0, 0, 0, 0, 0, 0, 0, 0, 0, 0, 0, 0, 0, 0, 0, 0, 0,
  0, 0, 0, 0, 0, 0, 0, 0, 0, 0, 0, 0, 0, 0, 0, 0, 0, 0, 0, 0, 0, 0, 0, 0, 0, 0, 0, 0, 0, 0, 0, 0, 0, 0, 0, 0, 0, 0, 0, 0, 0, 0, 0, 0, 0, 0, 0, 0, 0, 0, 0, 0, 0, 0, 0, 0, 0, 0, 0, 0, 0, 0, 0, 0, 0, 0, 0, 0, 0, 0, 0, 0, 0, 0, 0, 0, 0, 0, 0, 0, 0, 0, 0, 0, 0, 0, 0, 0, 0, 0,
  0, 0, 0, 0, 0, 0, 0, 0, 0, 0, 0, 0, 0, 0, 0, 0, 0, 0, 0, 0, 0, 0, 0, 0, 0, 0, 0, 0, 0, 0, 0, 0, 0, 0, 0, 0, 0, 0, 0, 0, 0, 0, 0, 0, 0, 0, 0, 0, 0, 0, 0, 0, 0, 0, 0, 0, 0, 0, 0, 0, 0, 0, 0, 0, 0, 0, 0, 0, 0, 0, 0, 0, 0, 0, 0, 0, 0, 0, 0, 0, 0, 0, 0, 0, 0, 0, 0, 0, 0, 0,
  0, 0, 0, 0, 0, 0, 0, 0, 0, 0, 0, 0, 0, 0, 0, 0, 0, 0, 0, 0, 0, 0, 0, 0, 0, 0, 0, 0, 0, 0, 0, 0, 0, 0, 0, 0, 0, 0, 0, 0, 0, 0, 0, 0, 0, 0, 0, 0, 0, 0, 0, 0, 0, 0, 0, 0, 0, 0, 0, 0, 0, 0, 0, 0, 0, 0, 0, 0, 0, 0, 0, 0, 0, 0, 0, 0, 0, 0, 0, 0, 0, 0, 0, 0, 0, 0, 0, 0, 0, 0,
  0, 0, 0, 0, 0, 0, 0, 0, 0, 0, 0, 0, 0, 0, 0, 0, 0, 0, 0, 0, 0, 0, 0, 0, 0, 0, 0, 0, 0, 0, 0, 0, 0, 0, 0, 0, 0, 0, 0, 0, 0, 0, 0, 0, 0, 0, 0, 0, 0, 0, 0, 0, 0, 0, 0, 0, 0, 0, 0, 0, 0, 0, 0, 0, 0, 0, 0, 0, 0, 0, 0, 0, 0, 0, 0, 0, 0, 0, 0, 0, 0, 0, 0, 0, 0, 0, 0, 0, 0, 0,
  0, 0, 0, 0, 0, 0, 0, 0, 0, 0, 0, 0, 0, 0, 0, 0, 0, 0, 0, 0, 0, 0, 0, 0, 0, 0, 0, 0, 0, 0, 0, 0, 0, 0, 0, 0, 0, 0, 0, 0, 0, 0, 0, 0, 0, 0, 0, 0, 0, 0, 0, 0, 0, 0, 0, 0, 0, 0, 0, 0, 0, 0, 0, 0, 0, 5, -4, -4, -1, 0, 0, -4, -1, 0, 0, -4, 0, 1, -2, 0, 0, 0, 1, -4, -4, 0, -1, 1, 0, -4,
  0, 0, 0, 0, 0, 0, 0, 0, 0, 0, 0, 0, 0, 0, 0, 0, 0, 0, 0, 0, 0, 0, 0, 0, 0, 0, 0, 0, 0, 0, 0, 0, 0, 0, 0, 0, 0, 0, 0, 0, 0, 0, 0, 0, 0, 0, 0, 0, 0, 0, 0, 0, 0, 0, 0, 0, 0, 0, 0, 0, 0, 0, 0, 0, 0, -4, -1, -1, -2, 0, 0, -1, -2, 0, 0, -1, 0, -3, -1, 0, 0, 0, -3, -1, -1, 0, -2, -3, 0, -1,
  0, 0, 0, 0, 0, 0, 0, 0, 0, 0, 0, 0, 0, 0, 0, 0, 0, 0, 0, 0, 0, 0, 0, 0, 0, 0, 0, 0, 0, 0, 0, 0, 0, 0, 0, 0, 0, 0, 0, 0, 0, 0, 0, 0, 0, 0, 0, 0, 0, 0, 0, 0, 0, 0, 0, 0, 0, 0, 0, 0, 0, 0, 0, 0, 0, -4, -1, 5, -4, 0, 0, -4, -1, 0, 0, -4, 0, 1, -2, 0, 0, 0, -4, 1, -4, 0, -1, -4, 0, 1,
  0, 0, 0, 0, 0, 0, 0, 0, 0, 0, 0, 0, 0, 0, 0, 0, 0, 0, 0, 0, 0, 0, 0, 0, 0, 0, 0, 0, 0, 0, 0, 0, 0, 0, 0, 0, 0, 0, 0, 0, 0, 0, 0, 0, 0, 0, 0, 0, 0, 0, 0, 0, 0, 0, 0, 0, 0, 0, 0, 0, 0, 0, 0, 0, 0, -1, -2, -4, -1, 0, 0, -1, -2, 0, 0, -1, 0, -3, -1, 0, 0, 0, -1, -3, -1, 0, -2, -1, 0, -3,
  0, 0, 0, 0, 0, 0, 0, 0, 0, 0, 0, 0, 0, 0, 0, 0, 0, 0, 0, 0, 0, 0, 0, 0, 0, 0, 0, 0, 0, 0, 0, 0, 0, 0, 0, 0, 0, 0, 0, 0, 0, 0, 0, 0, 0, 0, 0, 0, 0, 0, 0, 0, 0, 0, 0, 0, 0, 0, 0, 0, 0, 0, 0, 0, 0, 0, 0, 0, 0, 0, 0, 0, 0, 0, 0, 0, 0, 0, 0, 0, 0, 0, 0, 0, 0, 0, 0, 0, 0, 0,
  0, 0, 0, 0, 0, 0, 0, 0, 0, 0, 0, 0, 0, 0, 0, 0, 0, 0, 0, 0, 0, 0, 0, 0, 0, 0, 0, 0, 0, 0, 0, 0, 0, 0, 0, 0, 0, 0, 0, 0, 0, 0, 0, 0, 0, 0, 0, 0, 0, 0, 0, 0, 0, 0, 0, 0, 0, 0, 0, 0, 0, 0, 0, 0, 0, 0, 0, 0, 0, 0, 0, 0, 0, 0, 0, 0, 0, 0, 0, 0, 0, 0, 0, 0, 0, 0, 0, 0, 0, 0,
  0, 0, 0, 0, 0, 0, 0, 0, 0, 0, 0, 0, 0, 0, 0, 0, 0, 0, 0, 0, 0, 0, 0, 0, 0, 0, 0, 0, 0, 0, 0, 0, 0, 0, 0, 0, 0, 0, 0, 0, 0, 0, 0, 0, 0, 0, 0, 0, 0, 0, 0, 0, 0, 0, 0, 0, 0, 0, 0, 0, 0, 0, 0, 0, 0, -4, -1, -4, -1, 0, 0, 5, -4, 0, 0, 1, 0, -4, -2, 0, 0, 0, 1, 1, -4, 0, -1, -4, 0, -4,
  0, 0, 0, 0, 0, 0, 0, 0, 0, 0, 0, 0, 0, 0, 0, 0, 0, 0, 0, 0, 0, 0, 0, 0, 0, 0, 0, 0, 0, 0, 0, 0, 0, 0, 0, 0, 0, 0, 0, 0, 0, 0, 0, 0, 0, 0, 0, 0, 0, 0, 0, 0, 0, 0, 0, 0, 0, 0, 0, 0, 0, 0, 0, 0, 0, -1, -2, -1, -2, 0, 0, -4, -1, 0, 0, -3, 0, -1, -1, 0, 0, 0, -3, -3, -1, 0, -2, -1, 0, -1,
  0, 0, 0, 0, 0, 0, 0, 0, 0, 0, 0, 0, 0, 0, 0, 0, 0, 0, 0, 0, 0, 0, 0, 0, 0, 0, 0, 0, 0, 0, 0, 0, 0, 0, 0, 0, 0, 0, 0, 0, 0, 0, 0, 0, 0, 0, 0, 0, 0, 0, 0, 0, 0, 0, 0, 0, 0, 0, 0, 0, 0, 0, 0, 0, 0, 0, 0, 0, 0, 0, 0, 0, 0, 0, 0, 0, 0, 0, 0, 0, 0, 0, 0, 0, 0, 0, 0, 0, 0, 0,
  0, 0, 0, 0, 0, 0, 0, 0, 0, 0, 0, 0, 0, 0, 0, 0, 0, 0, 0, 0, 0, 0, 0, 0, 0, 0, 0, 0, 0, 0, 0, 0, 0, 0, 0, 0, 0, 0, 0, 0, 0, 0, 0, 0, 0, 0, 0, 0, 0, 0, 0, 0, 0, 0, 0, 0, 0, 0, 0, 0, 0, 0, 0, 0, 0, 0, 0, 0, 0, 0, 0, 0, 0, 0, 0, 0, 0, 0, 0, 0, 0, 0, 0, 0, 0, 0, 0, 0, 0, 0,
  0, 0, 0, 0, 0, 0, 0, 0, 0, 0, 0, 0, 0, 0, 0, 0, 0, 0, 0, 0, 0, 0, 0, 0, 0, 0, 0, 0, 0, 0, 0, 0, 0, 0, 0, 0, 0, 0, 0, 0, 0, 0, 0, 0, 0, 0, 0, 0, 0, 0, 0, 0, 0, 0, 0, 0, 0, 0, 0, 0, 0, 0, 0, 0, 0, -4, -1, -4, -1, 0, 0, 1, -3, 0, 0, -1, 0, -4, -1, 0, 0, 0, -2, -2, 1, 0, -3, -2, 0, -2,
  0, 0, 0, 0, 0, 0, 0, 0, 0, 0, 0, 0, 0, 0, 0, 0, 0, 0, 0, 0, 0, 0, 0, 0, 0, 0, 0, 0, 0, 0, 0, 0, 0, 0, 0, 0, 0, 0, 0, 0, 0, 0, 0, 0, 0, 0, 0, 0, 0, 0, 0, 0, 0, 0, 0, 0, 0, 0, 0, 0, 0, 0, 0, 0, 0, 0, 0, 0, 0, 0, 0, 0, 0, 0, 0, 0, 0, 0, 0, 0, 0, 0, 0, 0, 0, 0, 0, 0, 0, 0,
  0, 0, 0, 0, 0, 0, 0, 0, 0, 0, 0, 0, 0, 0, 0, 0, 0, 0, 0, 0, 0, 0, 0, 0, 0, 0, 0, 0, 0, 0, 0, 0, 0, 0, 0, 0, 0, 0, 0, 0, 0, 0, 0, 0, 0, 0, 0, 0, 0, 0, 0, 0, 0, 0, 0, 0, 0, 0, 0, 0, 0, 0, 0, 0, 0, 1, -3, 1, -3, 0, 0, -4, -1, 0, 0, -4, 0, -1, -1, 0, 0, 0, -2, -2, -4, 0, -1, -2, 0, -2,
  0, 0, 0, 0, 0, 0, 0, 0, 0, 0, 0, 0, 0, 0, 0, 0, 0, 0, 0, 0, 0, 0, 0, 0, 0, 0, 0, 0, 0, 0, 0, 0, 0, 0, 0, 0, 0, 0, 0, 0, 0, 0, 0, 0, 0, 0, 0, 0, 0, 0, 0, 0, 0, 0, 0, 0, 0, 0, 0, 0, 0, 0, 0, 0, 0, -2, -1, -2, -1, 0, 0, -2, -1, 0, 0, -1, 0, -1, -1, 0, 0, 0, -1, -1, -2, 0, -1, -1, 0, -1,
  0, 0, 0, 0, 0, 0, 0, 0, 0, 0, 0, 0, 0, 0, 0, 0, 0, 0, 0, 0, 0, 0, 0, 0, 0, 0, 0, 0, 0, 0, 0, 0, 0, 0, 0, 0, 0, 0, 0, 0, 0, 0, 0, 0, 0, 0, 0, 0, 0, 0, 0, 0, 0, 0, 0, 0, 0, 0, 0, 0, 0, 0, 0, 0, 0, 0, 0, 0, 0, 0, 0, 0, 0, 0, 0, 0, 0, 0, 0, 0, 0, 0, 0, 0, 0, 0, 0, 0, 0, 0,
  0, 0, 0, 0, 0, 0, 0, 0, 0, 0, 0, 0, 0, 0, 0, 0, 0, 0, 0, 0, 0, 0, 0, 0, 0, 0, 0, 0, 0, 0, 0, 0, 0, 0, 0, 0, 0, 0, 0, 0, 0, 0, 0, 0, 0, 0, 0, 0, 0, 0, 0, 0, 0, 0, 0, 0, 0, 0, 0, 0, 0, 0, 0, 0, 0, 0, 0, 0, 0, 0, 0, 0, 0, 0, 0, 0, 0, 0, 0, 0, 0, 0, 0, 0, 0, 0, 0, 0, 0, 0,
  0, 0, 0, 0, 0, 0, 0, 0, 0, 0, 0, 0, 0, 0, 0, 0, 0, 0, 0, 0, 0, 0, 0, 0, 0, 0, 0, 0, 0, 0, 0, 0, 0, 0, 0, 0, 0, 0, 0, 0, 0, 0, 0, 0, 0, 0, 0, 0, 0, 0, 0, 0, 0, 0, 0, 0, 0, 0, 0, 0, 0, 0, 0, 0, 0, 0, 0, 0, 0, 0, 0, 0, 0, 0, 0, 0, 0, 0, 0, 0, 0, 0, 0, 0, 0, 0, 0, 0, 0, 0,
  0, 0, 0, 0, 0, 0, 0, 0, 0, 0, 0, 0, 0, 0, 0, 0, 0, 0, 0, 0, 0, 0, 0, 0, 0, 0, 0, 0, 0, 0, 0, 0, 0, 0, 0, 0, 0, 0, 0, 0, 0, 0, 0, 0, 0, 0, 0, 0, 0, 0, 0, 0, 0, 0, 0, 0, 0, 0, 0, 0, 0, 0, 0, 0, 0, 1, -3, -4, -1, 0, 0, 1, -3, 0, 0, -2, 0, -2, -1, 0, 0, 0, -1, -2, -4, 0, -1, -2, 0, -4,
  0, 0, 0, 0, 0, 0, 0, 0, 0, 0, 0, 0, 0, 0, 0, 0, 0, 0, 0, 0, 0, 0, 0, 0, 0, 0, 0, 0, 0, 0, 0, 0, 0, 0, 0, 0, 0, 0, 0, 0, 0, 0, 0, 0, 0, 0, 0, 0, 0, 0, 0, 0, 0, 0, 0, 0, 0, 0, 0, 0, 0, 0, 0, 0, 0, -4, -1, 1, -3, 0, 0, 1, -3, 0, 0, -2, 0, -2, -1, 0, 0, 0, -2, -1, -4, 0, -1, -4, 0, -2,
  0, 0, 0, 0, 0, 0, 0, 0, 0, 0, 0, 0, 0, 0, 0, 0, 0, 0, 0, 0, 0, 0, 0, 0, 0, 0, 0, 0, 0, 0, 0, 0, 0, 0, 0, 0, 0, 0, 0, 0, 0, 0, 0, 0, 0, 0, 0, 0, 0, 0, 0, 0, 0, 0, 0, 0, 0, 0, 0, 0, 0, 0, 0, 0, 0, -4, -1, -4, -1, 0, 0, -4, -1, 0, 0, 1, 0, -4, -2, 0, 0, 0, -4, -4, 5, 0, -4, 1, 0, 1,
  0, 0, 0, 0, 0, 0, 0, 0, 0, 0, 0, 0, 0, 0, 0, 0, 0, 0, 0, 0, 0, 0, 0, 0, 0, 0, 0, 0, 0, 0, 0, 0, 0, 0, 0, 0, 0, 0, 0, 0, 0, 0, 0, 0, 0, 0, 0, 0, 0, 0, 0, 0, 0, 0, 0, 0, 0, 0, 0, 0, 0, 0, 0, 0, 0, 0, 0, 0, 0, 0, 0, 0, 0, 0, 0, 0, 0, 0, 0, 0, 0, 0, 0, 0, 0, 0, 0, 0, 0, 0,
  0, 0, 0, 0, 0, 0, 0, 0, 0, 0, 0, 0, 0, 0, 0, 0, 0, 0, 0, 0, 0, 0, 0, 0, 0, 0, 0, 0, 0, 0, 0, 0, 0, 0, 0, 0, 0, 0, 0, 0, 0, 0, 0, 0, 0, 0, 0, 0, 0, 0, 0, 0, 0, 0, 0, 0, 0, 0, 0, 0, 0, 0, 0, 0, 0, -1, -2, -1, -2, 0, 0, -1, -2, 0, 0, -3, 0, -1, -1, 0, 0, 0, -1, -1, -4, 0, -1, -3, 0, -3,
  0, 0, 0, 0, 0, 0, 0, 0, 0, 0, 0, 0, 0, 0, 0, 0, 0, 0, 0, 0, 0, 0, 0, 0, 0, 0, 0, 0, 0, 0, 0, 0, 0, 0, 0, 0, 0, 0, 0, 0, 0, 0, 0, 0, 0, 0, 0, 0, 0, 0, 0, 0, 0, 0, 0, 0, 0, 0, 0, 0, 0, 0, 0, 0, 0, 1, -3, -4, -1, 0, 0, -4, -1, 0, 0, -2, 0, -2, -1, 0, 0, 0, -2, -4, 1, 0, -3, -1, 0, -2,
  0, 0, 0, 0, 0, 0, 0, 0, 0, 0, 0, 0, 0, 0, 0, 0, 0, 0, 0, 0, 0, 0, 0, 0, 0, 0, 0, 0, 0, 0, 0, 0, 0, 0, 0, 0, 0, 0, 0, 0, 0, 0, 0, 0, 0, 0, 0, 0, 0, 0, 0, 0, 0, 0, 0, 0, 0, 0, 0, 0, 0, 0, 0, 0, 0, 0, 0, 0, 0, 0, 0, 0, 0, 0, 0, 0, 0, 0, 0, 0, 0, 0, 0, 0, 0, 0, 0, 0, 0, 0,
  0, 0, 0, 0, 0, 0, 0, 0, 0, 0, 0, 0, 0, 0, 0, 0, 0, 0, 0, 0, 0, 0, 0, 0, 0, 0, 0, 0, 0, 0, 0, 0, 0, 0, 0, 0, 0, 0, 0, 0, 0, 0, 0, 0, 0, 0, 0, 0, 0, 0, 0, 0, 0, 0, 0, 0, 0, 0, 0, 0, 0, 0, 0, 0, 0, -4, -1, 1, -3, 0, 0, -4, -1, 0, 0, -2, 0, -2, -1, 0, 0, 0, -4, -2, 1, 0, -3, -2, 0, -1
  >>

\* an index computed with the wrong row stride
nuc_4_4_index_stride_89(a, b) == a + (89 * b)

\* get_nuc_4_4_value(): index = a + 90 * b
nuc_4_4_index(a, b) == a + (90 * b)
get_nuc_4_4_value(a, b) == EDNAFULL_NUC_4_4[nuc_4_4_index(a, b) + 1]

\* get_example_substitution(): ((a == b) * 6) - 3
get_example_substitution(a, b) == ((IF a = b THEN 1 ELSE 0) * 6) - 3

\* the function pointer get_substitution_matrix_value, as a tag
get_substitution_matrix_value(s, a, b) ==
  IF s = "example" THEN get_example_substitution(a, b)
                   ELSE get_nuc_4_4_value(a, b)

\* ------------------------------------------------------- scoring kernel
max(a, b) == IF a < b THEN b ELSE a

\* a kernel that forgets the predecessor above
best_score_without_up(left, up_left, up, a, b, s, gap) ==
  max(max(left - gap, up_left + get_substitution_matrix_value(s, a, b)), 0)

\* the kernel without the floor at 0
best_score_without_floor(left, up_left, up, a, b, s, gap) ==
  max(max(left - gap, up - gap),
      up_left + get_substitution_matrix_value(s, a, b))

\* the kernel with the substitution score counted twice
best_score_match_twice(left, up_left, up, a, b, s, gap) ==
  max(max(max(left - gap, up - gap),
          up_left + (2 * get_substitution_matrix_value(s, a, b))), 0)

best_linear_gap_smith_waterman_score(left, up_left, up, a, b, s, gap) ==
  max(max(max(left - gap, up - gap),
          up_left + get_substitution_matrix_value(s, a, b)), 0)

\* the value the kernel stores at offset k, given the cells 0..k-1 already
\* stored in scores (row-major order, as the loops of the kernel run)
kernel_cell(X, Y, scores, k, s, gap) ==
  LET len_Y == Len(Y)
      i == k \div len_Y
      j == k % len_Y
  IN  IF i = 0
      THEN IF j = 0
           THEN best_linear_gap_smith_waterman_score(0, 0, 0, X[1], Y[1], s, gap)
           ELSE best_linear_gap_smith_waterman_score(scores[j], 0, 0,
                                                     X[1], Y[j + 1], s, gap)
      ELSE IF j = 0
           THEN best_linear_gap_smith_waterman_score(0, 0,
                                                     scores[((i - 1) * len_Y) + 1],
                                                     X[i + 1], Y[1], s, gap)
           ELSE best_linear_gap_smith_waterman_score(
                    scores[(i * len_Y) + j - 1 + 1],
                    scores[((i - 1) * len_Y) + j - 1 + 1],
                    scores[((i - 1) * len_Y) + j + 1],
                    X[i + 1], Y[j + 1], s, gap)

RECURSIVE kernel_fill(_, _, _, _, _)
kernel_fill(X, Y, scores, s, gap) ==
  IF Len(scores) = Len(X) * Len(Y)
  THEN scores
  ELSE kernel_fill(X, Y,
                   Append(scores, kernel_cell(X, Y, scores, Len(scores), s, gap)),
                   s, gap)

\* linear_gap_smith_waterman(): the filled matrix, inputs non-empty
linear_gap_smith_waterman(X, Y, s, gap) == kernel_fill(X, Y, <<>>, s, gap)

\* ----------------------------------------------------- best-cell locator
\* a scan that lets a later equal value replace the best one
scan_replaces_on_equal(value, best_score) == value >= best_score

\* the comparison of the scan: if (Z[array_index] > best_score)
scan_replaces(value, best_score) == value > best_score

\* the two nested loops, one array_index at a time; xy is <<*x, *y>>
RECURSIVE scan_best(_, _, _, _, _, _)
scan_best(len_X, len_Y, Zm, array_index, best_score, xy) ==
  IF array_index = len_X * len_Y
  THEN xy
  ELSE IF scan_replaces(Zm[array_index + 1], best_score)
       THEN scan_best(len_X, len_Y, Zm, array_index + 1, Zm[array_index + 1],
                      <<array_index \div len_Y, array_index % len_Y>>)
       ELSE scan_best(len_X, len_Y, Zm, array_index + 1, best_score, xy)

\* best_linear_gap_smith_waterman_score_indices(): the returned bool and the
\* values of *x and *y on return (x0, y0 are their values on entry)
best_linear_gap_smith_waterman_score_indices(len_X, len_Y, Zm, x0, y0) ==
  IF (len_X = 0) \/ (len_Y = 0)
  THEN [found |-> FALSE, x |-> x0, y |-> y0]
  ELSE LET xy == scan_best(len_X, len_Y, Zm, 0, -1, <<x0, y0>>)
       IN  [found |-> TRUE, x |-> xy[1], y |-> xy[2]]

\* ------------------------------------------------------------ traceback
\* Z[(x * len_Y) + y]
cell(Zm, len_Y, x, y) == Zm[(x * len_Y) + y + 1]

\* a walk that tests the diagonal before the left gap
trace_rule_diagonal_first(X, Y, Zm, x, y, s, gap) ==
  LET len_Y == Len(Y)
  IN  IF (x = 0) \/ (y = 0) THEN "boundary"
      ELSE IF cell(Zm, len_Y, x - 1, y - 1)
                + get_substitution_matrix_value(s, X[x + 1], Y[y + 1])
              = cell(Zm, len_Y, x, y)
      THEN "diagonal"
      ELSE IF cell(Zm, len_Y, x, y - 1) - gap = cell(Zm, len_Y, x, y)
      THEN "left"
      ELSE IF cell(Zm, len_Y, x - 1, y) - gap = cell(Zm, len_Y, x, y)
      THEN "up"
      ELSE "none"

\* which branch one iteration of the while loop takes at cell (x, y)
trace_rule(X, Y, Zm, x, y, s, gap) ==
  LET len_Y == Len(Y)
  IN  IF (x = 0) \/ (y = 0) THEN "boundary"
      ELSE IF cell(Zm, len_Y, x, y - 1) - gap = cell(Zm, len_Y, x, y)
      THEN "left"
      ELSE IF cell(Zm, len_Y, x - 1, y - 1)
                + get_substitution_matrix_value(s, X[x + 1], Y[y + 1])
              = cell(Zm, len_Y, x, y)
      THEN "diagonal"
      ELSE IF cell(Zm, len_Y, x - 1, y) - gap = cell(Zm, len_Y, x, y)
      THEN "up"
      ELSE "none"

\* trace[alignment_index] = c, on a buffer whose bytes 0..Len(buf)-1 have
\* been written so far
put(buf, k, c) ==
  IF k + 1 <= Len(buf) THEN [buf EXCEPT ![k + 1] = c] ELSE Append(buf, c)

\* a traceback that leaves the traces in walk order
swap_loop_skipped(buf, alignment_index, i) == buf

\* the swap loop: for (i = 0; i < (alignment_length >> 1); i++)
RECURSIVE swap_loop(_, _, _)
swap_loop(buf, alignment_index, i) ==
  IF i >= ((alignment_index + 1) \div 2)
  THEN buf
  ELSE swap_loop([buf EXCEPT ![i + 1] = buf[alignment_index - i + 1],
                             ![alignment_index - i + 1] = buf[i + 1]],
                 alignment_index, i + 1)

\* the bytes of a C string held in buf: everything before the first NUL
c_string(buf) ==
  LET terminators == {k \in 1..Len(buf) : buf[k] = NUL}
  IN  IF terminators = {} THEN buf
      ELSE SubSeq(buf, 1, (CHOOSE k \in terminators :
                             \A m \in terminators : k <= m) - 1)

strlen(buf) == Len(c_string(buf))

\* ------------------------------------------------------------- driver
complement_dna_base(base) ==
  CASE base = Ord.A -> Ord.T
    [] base = Ord.A + LowerOffset -> Ord.T + LowerOffset
    [] base = Ord.B -> Ord.V
    [] base = Ord.B + LowerOffset -> Ord.V + LowerOffset
    [] base = Ord.C -> Ord.G
    [] base = Ord.C + LowerOffset -> Ord.G + LowerOffset
    [] base = Ord.D -> Ord.H
    [] base = Ord.D + LowerOffset -> Ord.H + LowerOffset
    [] base = Ord.G -> Ord.C
    [] base = Ord.G + LowerOffset -> Ord.C + LowerOffset
    [] base = Ord.H -> Ord.D
    [] base = Ord.H + LowerOffset -> Ord.D + LowerOffset
    [] base = Ord.M -> Ord.K
    [] base = Ord.M + LowerOffset -> Ord.K + LowerOffset
    [] base = Ord.N -> Ord.N
    [] base = Ord.N + LowerOffset -> Ord.N + LowerOffset
    [] base = Ord.S -> Ord.S
    [] base = Ord.S + LowerOffset -> Ord.S + LowerOffset
    [] base = Ord.T -> Ord.A
    [] base = Ord.T + LowerOffset -> Ord.A + LowerOffset
    [] base = Ord.U -> Ord.A
    [] base = Ord.U + LowerOffset -> Ord.A + LowerOffset
    [] base = Ord.V -> Ord.B
    [] base = Ord.V + LowerOffset -> Ord.B + LowerOffset
    [] base = Ord.W -> Ord.W
    [] base = Ord.W + LowerOffset -> Ord.W + LowerOffset
    [] base = Ord.Y -> Ord.R
    [] base = Ord.Y + LowerOffset -> Ord.R + LowerOffset
    [] OTHER -> NUL

\* get_reverse_complement(): the bytes of the new buffer, before its NUL
get_reverse_complement(sequence) ==
  LET sequence_length == Len(sequence)
  IN  [k \in 1..sequence_length |->
         complement_dna_base(sequence[sequence_length - k + 1])]

\* a column count in which a column of two gaps is passed over
count_column_without_double_gap(c, tx, ty) ==
  IF tx = ty
  THEN IF tx = GAP
       THEN c
       ELSE [c EXCEPT !.identical = @ + 1]
  ELSE IF tx = GAP
       THEN [c EXCEPT !.gaps_X = @ + 1, !.mismatches = @ + 1]
       ELSE IF ty = GAP
            THEN [c EXCEPT !.gaps_Y = @ + 1, !.mismatches = @ + 1]
            ELSE [c EXCEPT !.mismatches = @ + 1]

\* one column of count_mismatches(), added to the counters in c
count_column(c, tx, ty) ==
  IF tx = ty
  THEN IF tx = GAP
       THEN [c EXCEPT !.gaps_X = @ + 1, !.gaps_Y = @ + 1, !.mismatches = @ + 1]
       ELSE [c EXCEPT !.identical = @ + 1]
  ELSE IF tx = GAP
       THEN [c EXCEPT !.gaps_X = @ + 1, !.mismatches = @ + 1]
       ELSE IF ty = GAP
            THEN [c EXCEPT !.gaps_Y = @ + 1, !.mismatches = @ + 1]
            ELSE [c EXCEPT !.mismatches = @ + 1]

\* *identical = 0; *gaps_X = 0; *gaps_Y = 0; *mismatches = 0;
no_counts == [identical |-> 0, gaps_X |-> 0, gaps_Y |-> 0, mismatches |-> 0]

\* what turn i of the for loop adds to the four counters
count_loop(tx, ty, i) == count_column(no_counts, tx[i + 1], ty[i + 1])

\* count_mismatches() on two C strings of equal length: every turn of the
\* loop adds 0 or 1 to a counter, so each counter ends as the number of
\* turns that add to it
count_mismatches(tx, ty) ==
  LET turns == 0..(Len(tx) - 1)
  IN  [identical |->
         Cardinality({i \in turns : count_loop(tx, ty, i).identical = 1}),
       gaps_X |->
         Cardinality({i \in turns : count_loop(tx, ty, i).gaps_X = 1}),
       gaps_Y |->
         Cardinality({i \in turns : count_loop(tx, ty, i).gaps_Y = 1}),
       mismatches |->
         Cardinality({i \in turns : count_loop(tx, ty, i).mismatches = 1})]

\* ----------------------------------------------------- lines of a file
LF == 10
CR == 13
SPACE == 32
PLUS == 43
SEMICOLON == 59
GREATER == 62
AT == 64

\* extract_line(data, idx, line_length): the allocation of line_length + 1
\* bytes holding data[idx-line_length .. idx-1], the terminating NUL, and a
\* NUL in place of a final '\r'
extract_line(data, idx, line_length) ==
  LET line == SubSeq(data, (idx - line_length) + 1, idx)
  IN  IF line_length > 0 /\ line[line_length] = CR
      THEN [line EXCEPT ![line_length] = NUL] \o <<NUL>>
      ELSE line \o <<NUL>>

\* the offsets of data that the memcpy of extract_line() reads
extract_line_reads(idx, line_length) == (idx - line_length)..(idx - 1)

\* the offsets of the allocation that extract_line() reads or writes: the
\* NUL at line_length, the memcpy into 0 .. line_length - 1 and the test of
\* line[line_length - 1], which for line_length = 0 is the byte before the
\* allocation (size_t 0 - 1 added to the pointer)
extract_line_accesses(line_length) ==
  {line_length} \cup (0..(line_length - 1)) \cup {line_length - 1}

no_line_call == [idx |-> 0, line_length |-> 0, reads |-> {}, accesses |-> {}]

extract_line_call(idx, line_length) ==
  [idx |-> idx, line_length |-> line_length,
   reads |-> extract_line_reads(idx, line_length),
   accesses |-> extract_line_accesses(line_length)]

\* offset of the first '\n' of data at or after offset from, or Len(data)
RECURSIVE next_newline(_, _)
next_newline(data, from) ==
  IF from >= Len(data) THEN Len(data)
  ELSE IF data[from + 1] = LF THEN from
       ELSE next_newline(data, from + 1)

\* ------------------------------------------------------- FASTA reader
\* the while loop of get_length_fasta_sequence() from current_index on
RECURSIVE get_length_loop(_, _, _, _, _)
get_length_loop(fasta, current_index, last_newline, encountered, sequence_length) ==
  IF current_index >= Len(fasta) THEN sequence_length
  ELSE IF fasta[current_index + 1] # LF
       THEN get_length_loop(fasta, current_index + 1, last_newline,
                            encountered, sequence_length)
  ELSE
    LET current_line_length == current_index - last_newline
        first == fasta[(current_index - current_line_length) + 1]
        skip(e, n) == get_length_loop(fasta, current_index + 1,
                                      current_index + 1, e, n)
    IN  IF ~encountered
        THEN IF first = GREATER THEN skip(TRUE, sequence_length)
             ELSE IF first = SEMICOLON \/ first = LF
                  THEN skip(FALSE, sequence_length)
                  ELSE sequence_length
        ELSE IF first = GREATER THEN sequence_length
             ELSE IF first = SEMICOLON THEN skip(TRUE, sequence_length)
             ELSE IF current_line_length = 0 THEN sequence_length
             ELSE IF fasta[current_index] = CR
                  THEN IF current_line_length = 1 THEN sequence_length
                       ELSE skip(TRUE, (sequence_length + current_line_length) - 1)
                  ELSE skip(TRUE, sequence_length + current_line_length)

get_length_fasta_sequence(fasta) == get_length_loop(fasta, 0, 0, FALSE, 0)

\* a pointer that was never assigned an allocation
NULL == <<-1>>

\* the while loop of extract_fasta_sequence() from current_index on; st holds
\* encountered_sequence_identifier, *fasta_sequence_identifier and the bytes
\* copied into *sequence so far
RECURSIVE extract_loop(_, _, _, _)
extract_loop(fasta, current_index, last_newline, st) ==
  IF current_index >= Len(fasta)
  THEN [fasta_sequence_identifier |-> st.id, sequence |-> st.copied]
  ELSE IF fasta[current_index + 1] # LF
       THEN extract_loop(fasta, current_index + 1, last_newline, st)
  ELSE
    LET current_line_length == current_index - last_newline
        first == fasta[(current_index - current_line_length) + 1]
        skip(t) == extract_loop(fasta, current_index + 1, current_index + 1, t)
        stop == [fasta_sequence_identifier |-> st.id, sequence |-> st.copied]
        line(n) == SubSeq(fasta, (current_index - current_line_length) + 1,
                          (current_index - current_line_length) + n)
        copy(n) == [st EXCEPT !.copied = st.copied \o line(n)]
    IN  IF ~st.encountered
        THEN IF first = GREATER
             THEN skip([st EXCEPT
                          !.id = extract_line(fasta, current_index,
                                              current_line_length),
                          !.encountered = TRUE])
             ELSE IF first = SEMICOLON \/ first = LF
                  THEN skip(st)
                  ELSE [fasta_sequence_identifier |-> st.id, sequence |-> NULL]
        ELSE IF first = GREATER THEN stop
             ELSE IF first = SEMICOLON THEN skip(st)
             ELSE IF current_line_length = 0 THEN stop
             ELSE IF fasta[current_index] = CR
                  THEN IF current_line_length = 1 THEN stop
                       ELSE skip(copy(current_line_length - 1))
                  ELSE skip(copy(current_line_length))

\* extract_fasta_sequence(): both outputs stay NULL when the length is 0
extract_fasta_sequence(fasta) ==
  IF get_length_fasta_sequence(fasta) = 0
  THEN [fasta_sequence_identifier |-> NULL, sequence |-> NULL]
  ELSE extract_loop(fasta, 0, 0,
                    [encountered |-> FALSE, id |-> NULL, copied |-> <<>>])

\* ---------------------------------------------------- pair formatter
\* the width of a full body segment
SEGMENT_COLUMNS == 50

\* number of characters other than '-' in t[lo+1 .. lo+n]
count_bases(t, lo, n) ==
  Cardinality({k \in (lo + 1)..(lo + n) : t[k] # GAP})

\* the line of match markers below n columns from offset lo
match_markers(trace_X, trace_Y, lo, n) ==
  [j \in 1..n |->
     IF trace_X[lo + j] = trace_Y[lo + j] /\ trace_X[lo + j] # GAP
     THEN "|" ELSE " "]

\* a body segment whose start coordinate is always the previous end + 1
body_segment_start_advances(trace_X, trace_Y, lo, n, prev_X, prev_Y) ==
  LET current_X == prev_X + count_bases(trace_X, lo, n)
      current_Y == prev_Y + count_bases(trace_Y, lo, n)
  IN  [first_column |-> lo,
       columns |-> n,
       starting_Y |-> prev_Y + 1,
       text_Y |-> SubSeq(trace_Y, lo + 1, lo + n),
       current_Y |-> current_Y,
       markers |-> match_markers(trace_X, trace_Y, lo, n),
       starting_X |-> prev_X + 1,
       text_X |-> SubSeq(trace_X, lo + 1, lo + n),
       current_X |-> current_X]

\* a body segment whose start coordinate looks at the segment before it
body_segment_start_from_previous(trace_X, trace_Y, lo, n, prev_X, prev_Y) ==
  LET current_X == prev_X + count_bases(trace_X, lo, n)
      current_Y == prev_Y + count_bases(trace_Y, lo, n)
  IN  [first_column |-> lo,
       columns |-> n,
       starting_Y |-> IF prev_Y > 0 THEN prev_Y + 1 ELSE prev_Y,
       text_Y |-> SubSeq(trace_Y, lo + 1, lo + n),
       current_Y |-> current_Y,
       markers |-> match_markers(trace_X, trace_Y, lo, n),
       starting_X |-> IF prev_X > 0 THEN prev_X + 1 ELSE prev_X,
       text_X |-> SubSeq(trace_X, lo + 1, lo + n),
       current_X |-> current_X]

\* one body segment of n columns starting at column lo
body_segment(trace_X, trace_Y, lo, n, prev_X, prev_Y) ==
  LET current_X == prev_X + count_bases(trace_X, lo, n)
      current_Y == prev_Y + count_bases(trace_Y, lo, n)
  IN  [first_column |-> lo,
       columns |-> n,
       starting_Y |-> IF current_Y > prev_Y THEN prev_Y + 1 ELSE prev_Y,
       text_Y |-> SubSeq(trace_Y, lo + 1, lo + n),
       current_Y |-> current_Y,
       markers |-> match_markers(trace_X, trace_Y, lo, n),
       starting_X |-> IF current_X > prev_X THEN prev_X + 1 ELSE prev_X,
       text_X |-> SubSeq(trace_X, lo + 1, lo + n),
       current_X |-> current_X]

\* the for loop over the alignment_quotient full segments from segment i on
RECURSIVE full_segments(_, _, _, _, _, _)
full_segments(trace_X, trace_Y, alignment_quotient, i, prev_X, prev_Y) ==
  IF i >= alignment_quotient THEN <<>>
  ELSE LET seg == body_segment(trace_X, trace_Y, i * SEGMENT_COLUMNS,
                               SEGMENT_COLUMNS, prev_X, prev_Y)
       IN  <<seg>> \o full_segments(trace_X, trace_Y, alignment_quotient,
                                    i + 1, seg.current_X, seg.current_Y)

\* a formatter that stops after the full segments
remainder_never_written(alignment_remaining) == FALSE

\* whether the formatter writes the remainder segment
remainder_written(alignment_remaining) == alignment_remaining # 0

\* the body of generate_int_linear_gap_penalty_pair_alignment()
pair_alignment_body(trace_X, trace_Y) ==
  LET alignment_length == Len(trace_X)
      alignment_quotient == alignment_length \div SEGMENT_COLUMNS
      alignment_remaining == alignment_length % SEGMENT_COLUMNS
      full == full_segments(trace_X, trace_Y, alignment_quotient, 0, 0, 0)
      prev_X == IF full = <<>> THEN 0 ELSE full[Len(full)].current_X
      prev_Y == IF full = <<>> THEN 0 ELSE full[Len(full)].current_Y
  IN  IF remainder_written(alignment_remaining)
      THEN Append(full, body_segment(trace_X, trace_Y,
                                     alignment_quotient * SEGMENT_COLUMNS,
                                     alignment_remaining, prev_X, prev_Y))
      ELSE full

\* ------------------------------------------- bytes of the pair report
\* strlen() of the text strftime() makes of "%a %b %d %H:%M:%S %Y" in the
\* C locale for a year of four digits
RUNDATE_LENGTH == 3 + 1 + 3 + 1 + 2 + 1 + 8 + 1 + 4

\* number of characters "%llu" prints for n
RECURSIVE llu_length(_)
llu_length(n) == IF n < 10 THEN 1 ELSE 1 + llu_length(n \div 10)

\* number of characters "%20llu" prints for n: at least 20
llu20_length(n) == IF llu_length(n) < 20 THEN 20 ELSE llu_length(n)

\* a 64-bit score or gap penalty is held by the decimal numeral that
\* "%" PRId64 prints for it; PRId64_length is the length of that text
PRId64_length(numeral) == Len(numeral)

\* what "%.1f" can print for 0.0 / 0.0
NanLengths == {Len("nan"), Len("-nan")}

\* number of characters "%.1f" prints for count / alignment_length * 100.0
\* when alignment_length is not 0: the integer part of the value rounded to
\* tenths, '.' and one digit
percent_length(count, alignment_length) ==
  LET tenths == ((2000 * count) + alignment_length)
                  \div (2 * alignment_length)
  IN  llu_length(tenths \div 10) + 2

\* get_first_string_token_space_delimited(): the bytes before the first ' '
first_string_token(s) ==
  LET spaces == {i \in 1..Len(s) : s[i] = SPACE}
  IN  IF spaces = {} THEN s
      ELSE SubSeq(s, 1, (CHOOSE i \in spaces :
                           \A k \in spaces : i <= k) - 1)

\* lengths strlen() can find for bytes that lie past an allocation
StrayRun == 64
StrayLengths == {0, 1, StrayRun}

\* strlen(token + 1) for the first token of identifier: the token without
\* its first byte; an empty token is an allocation of one byte, and
\* token + 1 lies past it
token_tail_lengths(identifier) ==
  LET token == first_string_token(identifier)
  IN  IF Len(token) >= 1 THEN {Len(token) - 1} ELSE StrayLengths

\* a text line with its '\n'
line_length(text) == Len(text) + 1

\* the size given to malloc() for pair_allocation, id_1 and id_2 being
\* strlen(sequence_id_token + 1) and strlen(query_sequence_id_token + 1)
report_size(id_1, id_2, matrix_name_length, alignment_length) ==
  LET max_sequence_identifier_length == IF id_1 > id_2 THEN id_1 ELSE id_2
      alignment_quotient == alignment_length \div SEGMENT_COLUMNS
      alignment_remaining == alignment_length % SEGMENT_COLUMNS
  IN  225
      + 37 + id_1 + id_2
      + 11 + matrix_name_length
      + 112
      + 290
      + 45
      + (alignment_quotient * ((3 * max_sequence_identifier_length) + 263))
      + ((3 * (max_sequence_identifier_length + alignment_remaining)) + 113)
      + 84
      + 1

\* bytes of the first sprintf(): the start of the header
header_start_bytes ==
  line_length("########################################")
  + line_length("# Program:  ednafull_linear_smith_waterman")
  + Len("# Rundate:  ") + RUNDATE_LENGTH + 1
  + line_length("# Report_file: stdout")
  + line_length("########################################")
  + line_length("#=======================================")

\* bytes of the sprintf() of the two identifiers, printed with "%s"
header_names_bytes(id_1, id_2) ==
  line_length("#")
  + line_length("# Aligned_sequences: 2")
  + Len("# 1: ") + id_1 + 1
  + Len("# 2: ") + id_2 + 1

header_matrix_bytes(matrix_name_length) ==
  Len("# Matrix: ") + matrix_name_length + 1

header_gap_bytes(gap_penalty, alignment_length) ==
  Len("# Gap_penalty: ") + PRId64_length(gap_penalty) + Len(".0") + 1
  + Len("# Extend_penalty: ") + PRId64_length(gap_penalty) + Len(".0") + 1
  + line_length("#")
  + Len("# Length: ") + llu_length(alignment_length) + 1

\* one line "# Identity:   %20llu/%llu (%.1f%%)\n"
statistic_bytes(count, alignment_length, nan_length) ==
  Len("# Identity:   ") + llu20_length(count) + Len("/")
  + llu_length(alignment_length) + Len(" (")
  + (IF alignment_length = 0 THEN nan_length
     ELSE percent_length(count, alignment_length))
  + Len("%)") + 1

header_statistics_bytes(counts, alignment_length, score_text, nan_length) ==
  statistic_bytes(counts.identical, alignment_length, nan_length)
  + statistic_bytes(counts.identical, alignment_length, nan_length)
  + statistic_bytes(counts.gaps_X + counts.gaps_Y, alignment_length,
                    nan_length)
  + statistic_bytes(counts.mismatches, alignment_length, nan_length)
  + Len("# Score: ") + PRId64_length(score_text) + 1

header_end_bytes ==
  line_length("#") + line_length("#")
  + line_length("#=======================================")

\* bytes "%-<width>s %20llu %s %20llu\n" prints for an identifier of id
\* characters, two coordinates and columns alignment characters
sequence_line_bytes(width, id, columns, starting, current) ==
  (IF id > width THEN id ELSE width) + 1 + llu20_length(starting) + 1
  + columns + 1 + llu20_length(current) + 1

\* bytes of one body segment: two '\n', the line of trace_Y, the line of
\* markers after width + 22 spaces, the line of trace_X
segment_bytes(width, id_1, id_2, seg) ==
  2
  + sequence_line_bytes(width, id_1, seg.columns, seg.starting_Y,
                        seg.current_Y)
  + (width + 22) + (seg.columns + 1)
  + sequence_line_bytes(width, id_2, seg.columns, seg.starting_X,
                        seg.current_X)

RECURSIVE body_bytes(_, _, _, _, _)
body_bytes(width, id_1, id_2, body, i) ==
  IF i > Len(body) THEN 0
  ELSE segment_bytes(width, id_1, id_2, body[i])
       + body_bytes(width, id_1, id_2, body, i + 1)

footer_bytes ==
  1 + 1
  + line_length("#---------------------------------------")
  + line_length("#---------------------------------------")

\* the bytes the formatter writes into pair_allocation, the final NUL
\* included: width is max_sequence_identifier_length as computed before the
\* allocation, id_1 and id_2 are the lengths the sprintf() calls find,
\* call holds the arguments of the formatter
report_written(width, id_1, id_2, call, nan_length) ==
  LET alignment_length == Len(call.trace_X)
  IN  header_start_bytes
      + header_names_bytes(id_1, id_2)
      + header_matrix_bytes(Len(call.substitution_matrix_name))
      + header_gap_bytes(call.gap_penalty, alignment_length)
      + header_statistics_bytes(
          count_mismatches(call.trace_X, call.trace_Y),
          alignment_length, call.score, nan_length)
      + header_end_bytes
      + body_bytes(width, id_1, id_2,
                   pair_alignment_body(call.trace_X, call.trace_Y), 1)
      + footer_bytes
      + 1

no_report_call ==
  [sequence_identifier |-> <<>>, query_sequence_identifier |-> <<>>,
   substitution_matrix_name |-> <<>>, trace_X |-> <<>>, trace_Y |-> <<>>,
   score |-> "0", gap_penalty |-> "0", size |-> 0, written |-> 0]

\* ---------------------------------------------------------------- state
VARIABLES
  mode,                  \* "example" (example program), "tsv" or "pair"
  query_sequence,        \* the reference (example program: a)
  sequence,              \* the read (example program: b)
  gap_penalty,
  reverse_complement_sequence,
  pass,                  \* "forward" or "reverse": which alignment of the read
  seq_X, seq_Y,          \* arguments of the current alignment call
  Z,                     \* the scoring matrix, row-major
  found,                 \* what the locator returned
  stop_X, stop_Y,        \* the cell the locator reported
  start_X, start_Y,      \* *x and *y of the traceback
  score,                 \* local of the traceback
  alignment_index,       \* local of the traceback
  trace_X, trace_Y,      \* bytes written so far into the two trace buffers
  smith_waterman_score,
  reverse_complement_smith_waterman_score,
  out,                   \* records written to the output so far
  pc,
  fastq_data,            \* the bytes of the FASTQ file
  current_index,         \* locals of the read loop of the two handlers
  line_count,
  last_newline,
  sequence_id,
  phred_scores,
  argv,                  \* the command line main() was started with
  output_flag,           \* local of main()
  parse_status,          \* local of main()
  fasta_data,            \* the bytes of the FASTA query file
  fasta_sequence_identifier,
  nuc_call,              \* a, b, index and result of get_nuc_4_4_value()
  line_call,             \* arguments and accesses of the last extract_line()
  report_call            \* arguments and byte counts of the pair formatter

\* the alignment of one pair of sequences
align_vars ==
  <<seq_X, seq_Y, Z, found, stop_X, stop_Y, start_X, start_Y, score,
    alignment_index, trace_X, trace_Y>>

\* the locals of the read loop
scan_vars ==
  <<fastq_data, current_index, line_count, last_newline, sequence_id,
    phred_scores>>

\* the locals of main() and of the table lookup
main_vars ==
  <<argv, output_flag, parse_status, fasta_data, fasta_sequence_identifier>>

vars ==
  <<mode, query_sequence, sequence, gap_penalty, reverse_complement_sequence,
    pass, seq_X, seq_Y, Z, found, stop_X, stop_Y, start_X, start_Y, score,
    alignment_index, trace_X, trace_Y, smith_waterman_score,
    reverse_complement_smith_waterman_score, out, pc, fastq_data,
    current_index, line_count, last_newline, sequence_id, phred_scores,
    argv, output_flag, parse_status, fasta_data, fasta_sequence_identifier,
    nuc_call, line_call, report_call>>

\* the substitution function the current program passes to the kernel
substitution == IF mode = "example" THEN "example" ELSE "nuc44"

\* #define LINEAR_GAP_PENALTY 2
LINEAR_GAP_PENALTY == 2
\* int64_t gap_penalty = 16 (default of the driver)
DEFAULT_GAP_PENALTY == 16

\* ---------------------------------------------------------------- inputs
Str(s) == [k \in 1..Len(s) |-> Ord[s[k]]]

\* bases the bounded inputs are drawn from (closed under complement)
Bases == {Ord.A, Ord.T, Ord.N}
GapPenalties == {0, LINEAR_GAP_PENALTY, DEFAULT_GAP_PENALTY}
\* values a byte of malloc'ed memory that was never written may hold
UninitBytes == {NUL, GAP}
\* values a byte read past the end of an allocation may hold
StrayBytes == {NUL, 63}

\* char a[10] = "GGTTGACTA"; char b[9] = "TGTTACGG";
example_a == Str(<<"G", "G", "T", "T", "G", "A", "C", "T", "A">>)
example_b == Str(<<"T", "G", "T", "T", "A", "C", "G", "G">>)

\* the named scenarios: identity and pure mismatch
ScenarioPairs ==
  {<<Str(<<"A", "C", "G", "T">>), Str(<<"A", "C", "G", "T">>)>>,
   <<Str(<<"A", "A", "A", "A">>), Str(<<"C", "C", "C", "C">>)>>}

\* the two standard bases among them
PlainBases == {Ord.A, Ord.T}

\* references up to MaxLenX against reads up to MaxLenY over Bases, and
\* reads as long as the reference over PlainBases
BoundedX == SeqsOf(Bases, 1, MaxLenX)
BoundedY == SeqsOf(Bases, 1, MaxLenY)
BoundedPairs ==
  (BoundedX \X BoundedY)
  \cup (SeqsOf(PlainBases, 1, MaxLenX) \X SeqsOf(PlainBases, 1, MaxLenX))

\* the identifier line and the quality line written for the k-th read
read_identifier(k) == <<AT, 48 + k>>
quality_line(n) == [k \in 1..n |-> 33 + k]

\* lines joined by the line ending eol
RECURSIVE join_lines(_, _)
join_lines(lines, eol) ==
  IF lines = <<>> THEN <<>>
  ELSE IF Len(lines) = 1 THEN lines[1]
       ELSE lines[1] \o eol \o join_lines(Tail(lines), eol)

\* the four lines of each read of a list, from the k-th read on
RECURSIVE fastq_lines(_, _, _)
fastq_lines(reads, k, short) ==
  IF k > Len(reads) THEN <<>>
  ELSE <<read_identifier(k), reads[k], <<PLUS>>,
         quality_line(Len(reads[k]) - short)>>
       \o fastq_lines(reads, k + 1, short)

\* a FASTQ file: the reads in order, each line but the last ended by eol,
\* the last one ended by eol when final is TRUE
fastq_text(reads, eol, final, short) ==
  IF reads = <<>> THEN <<>>
  ELSE join_lines(fastq_lines(reads, 1, short), eol)
       \o (IF final THEN eol ELSE <<>>)

\* a file holding the single read Y, every line ended by '\n'
one_read(Y) == fastq_text(<<Y>>, <<LF>>, TRUE, 0)

\* files of up to MaxReads reads, with both line endings, with and without
\* the final newline
ShortReads == {<<Ord.A>>, <<Ord.N>>, <<Ord.T, Ord.A>>}
LineEndings == {<<LF>>, <<CR, LF>>}
ReadFiles ==
  {fastq_text(reads, eol, final, 0) :
     reads \in SeqsOf(ShortReads, 0, MaxReads), eol \in LineEndings,
     final \in BOOLEAN}
\* files whose quality line is one character shorter than the read
ShortQualityFiles ==
  {fastq_text(<<Y>>, <<LF>>, TRUE, 1) : Y \in SeqsOf(PlainBases, 2, 2)}

Inputs ==
  {[mode |-> "example", X |-> example_a, Y |-> example_b,
    gap |-> LINEAR_GAP_PENALTY, fastq |-> <<>>]}
  \cup {[mode |-> "example", X |-> p[1], Y |-> p[2],
           gap |-> LINEAR_GAP_PENALTY, fastq |-> <<>>] : p \in BoundedPairs}
  \cup {[mode |-> "tsv", X |-> p[1], Y |-> <<>>, gap |-> g,
           fastq |-> one_read(p[2])] :
          p \in BoundedPairs, g \in GapPenalties}
  \cup {[mode |-> "pair", X |-> p[1], Y |-> <<>>,
           gap |-> DEFAULT_GAP_PENALTY, fastq |-> one_read(p[2])] :
          p \in BoundedPairs}
  \cup {[mode |-> m, X |-> p[1], Y |-> <<>>, gap |-> DEFAULT_GAP_PENALTY,
           fastq |-> one_read(p[2])] :
          m \in {"tsv", "pair"}, p \in ScenarioPairs}
  \cup {[mode |-> m, X |-> <<Ord.A, Ord.T>>, Y |-> <<>>,
           gap |-> DEFAULT_GAP_PENALTY, fastq |-> f] :
          m \in {"tsv", "pair"}, f \in ReadFiles}
  \cup {[mode |-> "tsv", X |-> <<Ord.A, Ord.T>>, Y |-> <<>>,
           gap |-> DEFAULT_GAP_PENALTY, fastq |-> f] :
          f \in ShortQualityFiles}

\* the identifier line of the query in the runs that start at a handler
QUERY_IDENTIFIER == <<GREATER, 113>>

\* a command line: --type, -q, -P and the arguments that are not options
NoArguments == [type |-> "none", query |-> "none", gap |-> "none",
                files |-> <<>>]

\* every variable before any code has run
Blank ==
  [mode |-> "example", query_sequence |-> <<>>, sequence |-> <<>>,
   gap_penalty |-> DEFAULT_GAP_PENALTY, reverse_complement_sequence |-> <<>>,
   pass |-> "forward", seq_X |-> <<>>, seq_Y |-> <<>>, Z |-> <<>>,
   found |-> FALSE, stop_X |-> 0, stop_Y |-> 0, start_X |-> 0, start_Y |-> 0,
   score |-> 0, alignment_index |-> 0, trace_X |-> <<>>, trace_Y |-> <<>>,
   smith_waterman_score |-> 0, reverse_complement_smith_waterman_score |-> 0,
   out |-> <<>>, pc |-> "done", fastq_data |-> <<>>, current_index |-> 0,
   line_count |-> 0, last_newline |-> 0, sequence_id |-> NULL,
   phred_scores |-> NULL, argv |-> NoArguments, output_flag |-> "OUTPUT_TSV",
   parse_status |-> 0, fasta_data |-> <<>>,
   fasta_sequence_identifier |-> QUERY_IDENTIFIER,
   nuc_call |-> [a |-> 0, b |-> 0, index |-> 0, value |-> 0],
   line_call |-> no_line_call, report_call |-> no_report_call]

InitAll(r) ==
  /\ mode = r.mode
  /\ query_sequence = r.query_sequence
  /\ sequence = r.sequence
  /\ gap_penalty = r.gap_penalty
  /\ reverse_complement_sequence = r.reverse_complement_sequence
  /\ pass = r.pass
  /\ seq_X = r.seq_X
  /\ seq_Y = r.seq_Y
  /\ Z = r.Z
  /\ found = r.found
  /\ stop_X = r.stop_X
  /\ stop_Y = r.stop_Y
  /\ start_X = r.start_X
  /\ start_Y = r.start_Y
  /\ score = r.score
  /\ alignment_index = r.alignment_index
  /\ trace_X = r.trace_X
  /\ trace_Y = r.trace_Y
  /\ smith_waterman_score = r.smith_waterman_score
  /\ reverse_complement_smith_waterman_score =
       r.reverse_complement_smith_waterman_score
  /\ out = r.out
  /\ pc = r.pc
  /\ fastq_data = r.fastq_data
  /\ current_index = r.current_index
  /\ line_count = r.line_count
  /\ last_newline = r.last_newline
  /\ sequence_id = r.sequence_id
  /\ phred_scores = r.phred_scores
  /\ argv = r.argv
  /\ output_flag = r.output_flag
  /\ parse_status = r.parse_status
  /\ fasta_data = r.fasta_data
  /\ fasta_sequence_identifier = r.fasta_sequence_identifier
  /\ nuc_call = r.nuc_call
  /\ line_call = r.line_call
  /\ report_call = r.report_call

InitWith(in, first_pc, Zm, x0, y0) ==
  InitAll([Blank EXCEPT
             !.mode = in.mode, !.query_sequence = in.X, !.sequence = in.Y,
             !.gap_penalty = in.gap, !.seq_X = in.X, !.seq_Y = in.Y,
             !.Z = Zm, !.stop_X = x0, !.stop_Y = y0, !.pc = first_pc,
             !.fastq_data = in.fastq])

Init ==
  \E in \in Inputs :
    InitWith(in, IF in.mode = "example" THEN "call" ELSE "start", <<>>, 0, 0)

\* --------------------------------------------------------------- actions
\* handle_fastq_tsv() / handle_fastq_pair() up to the read loop
HandlerStart ==
  /\ pc = "start"
  /\ reverse_complement_sequence' = get_reverse_complement(query_sequence)
  /\ current_index' = 0
  /\ line_count' = 0
  /\ last_newline' = 0
  /\ sequence_id' = NULL
  /\ sequence' = NULL
  /\ phred_scores' = NULL
  /\ pc' = "scan"
  /\ UNCHANGED <<mode, query_sequence, gap_penalty, pass, smith_waterman_score,
                 reverse_complement_smith_waterman_score, out, fastq_data,
                 nuc_call, line_call, report_call>>
  /\ UNCHANGED align_vars
  /\ UNCHANGED main_vars

\* the read loop up to and including its next '\n': the iterations before it
\* only advance current_index; at the '\n' the line is counted and, by its
\* row, extracted as identifier, read or quality; the quality line starts
\* the forward alignment of the read.  Without a further '\n' the loop runs
\* to total_bytes and the handler returns.
ScanLine ==
  /\ pc = "scan"
  /\ LET total_bytes == strlen(fastq_data)
         at == next_newline(c_string(fastq_data), current_index)
         current_line_length == at - last_newline
         sequence_row == (line_count + 1) % 4
         line == extract_line(fastq_data, at, current_line_length)
     IN  IF at >= total_bytes
         THEN /\ current_index' = IF current_index < total_bytes
                                  THEN total_bytes ELSE current_index
              /\ pc' = "done"
              /\ UNCHANGED <<line_count, last_newline, sequence_id, sequence,
                             phred_scores, pass, seq_X, seq_Y, line_call>>
         ELSE /\ line_count' = line_count + 1
              /\ last_newline' = at + 1
              /\ line_call' = IF sequence_row = 3 THEN line_call
                              ELSE extract_line_call(at, current_line_length)
              /\ sequence_id' = IF sequence_row = 1 THEN line ELSE sequence_id
              /\ sequence' = IF sequence_row = 2 THEN line ELSE sequence
              /\ phred_scores' = IF sequence_row = 0 THEN line
                                                     ELSE phred_scores
              /\ IF sequence_row = 0
                 THEN /\ current_index' = at
                      /\ pass' = "forward"
                      /\ seq_X' = c_string(query_sequence)
                      /\ seq_Y' = c_string(sequence)
                      /\ pc' = "call"
                 ELSE /\ current_index' = at + 1
                      /\ pc' = "scan"
                      /\ UNCHANGED <<pass, seq_X, seq_Y>>
  /\ UNCHANGED <<mode, query_sequence, gap_penalty,
                 reverse_complement_sequence, Z, found, stop_X, stop_Y,
                 start_X, start_Y, score, alignment_index, trace_X, trace_Y,
                 smith_waterman_score,
                 reverse_complement_smith_waterman_score, out, fastq_data,
                 nuc_call, report_call>>
  /\ UNCHANGED main_vars

\* malloc of the matrix and linear_gap_smith_waterman()
Fill ==
  /\ pc = "call"
  /\ Z' = linear_gap_smith_waterman(seq_X, seq_Y, substitution, gap_penalty)
  /\ pc' = "locate"
  /\ UNCHANGED <<mode, query_sequence, sequence, gap_penalty,
                 reverse_complement_sequence, pass, seq_X, seq_Y, found,
                 stop_X, stop_Y, start_X, start_Y, score, alignment_index,
                 trace_X, trace_Y, smith_waterman_score,
                 reverse_complement_smith_waterman_score, out, nuc_call, line_call, report_call>>
  /\ UNCHANGED scan_vars
  /\ UNCHANGED main_vars

\* assert(best_linear_gap_smith_waterman_score_indices(...)), the allocation
\* of the two traces and the entry of trace_linear_gap_smith_waterman()
Locate ==
  /\ pc = "locate"
  /\ LET r == best_linear_gap_smith_waterman_score_indices(
                  Len(seq_X), Len(seq_Y), Z, stop_X, stop_Y)
     IN  /\ found' = r.found
         /\ stop_X' = r.x
         /\ stop_Y' = r.y
         /\ IF r.found
            THEN /\ start_X' = r.x
                 /\ start_Y' = r.y
                 /\ score' = cell(Z, Len(seq_Y), r.x, r.y)
                 /\ pc' = "trace"
            ELSE /\ pc' = "abort"
                 /\ UNCHANGED <<start_X, start_Y, score>>
  /\ alignment_index' = 0
  /\ trace_X' = <<>>
  /\ trace_Y' = <<>>
  /\ UNCHANGED <<mode, query_sequence, sequence, gap_penalty,
                 reverse_complement_sequence, pass, seq_X, seq_Y, Z,
                 smith_waterman_score,
                 reverse_complement_smith_waterman_score, out, nuc_call, line_call, report_call>>
  /\ UNCHANGED scan_vars
  /\ UNCHANGED main_vars

\* a left-gap step that stays in its column
left_of_stays(y) == y

\* *y = *y - 1 of the left-gap step
left_of(y) == y - 1

\* one evaluation of while (score != 0) and one run of the loop body
TraceStep ==
  /\ pc = "trace"
  /\ LET len_Y == Len(seq_Y)
         rule == trace_rule(seq_X, seq_Y, Z, start_X, start_Y, substitution,
                            gap_penalty)
     IN  IF score = 0
         THEN /\ pc' = "finish"
              /\ UNCHANGED <<trace_X, trace_Y, score, start_X, start_Y,
                             alignment_index>>
         ELSE CASE rule = "boundary" ->
                   /\ trace_X' = put(trace_X, alignment_index, seq_X[start_X + 1])
                   /\ trace_Y' = put(trace_Y, alignment_index, seq_Y[start_Y + 1])
                   /\ pc' = "finish"
                   /\ UNCHANGED <<score, start_X, start_Y, alignment_index>>
                [] rule = "left" ->
                   /\ trace_X' = put(trace_X, alignment_index, GAP)
                   /\ trace_Y' = put(trace_Y, alignment_index, seq_Y[start_Y + 1])
                   /\ score' = cell(Z, len_Y, start_X, start_Y - 1)
                   /\ start_Y' = left_of(start_Y)
                   /\ alignment_index' = alignment_index + 1
                   /\ pc' = "trace"
                   /\ UNCHANGED start_X
                [] rule = "diagonal" ->
                   /\ trace_X' = put(trace_X, alignment_index, seq_X[start_X + 1])
                   /\ trace_Y' = put(trace_Y, alignment_index, seq_Y[start_Y + 1])
                   /\ IF cell(Z, len_Y, start_X - 1, start_Y - 1) = 0
                      THEN /\ pc' = "finish"
                           /\ UNCHANGED <<score, start_X, start_Y,
                                          alignment_index>>
                      ELSE /\ score' = cell(Z, len_Y, start_X - 1, start_Y - 1)
                           /\ start_X' = start_X - 1
                           /\ start_Y' = start_Y - 1
                           /\ alignment_index' = alignment_index + 1
                           /\ pc' = "trace"
                [] rule = "up" ->
                   /\ trace_X' = put(trace_X, alignment_index, seq_X[start_X + 1])
                   /\ trace_Y' = put(trace_Y, alignment_index, GAP)
                   /\ score' = cell(Z, len_Y, start_X - 1, start_Y)
                   /\ start_X' = start_X - 1
                   /\ alignment_index' = alignment_index + 1
                   /\ pc' = "trace"
                   /\ UNCHANGED start_Y
                [] OTHER ->
                   \* assert(false)
                   /\ pc' = "abort"
                   /\ UNCHANGED <<trace_X, trace_Y, score, start_X, start_Y,
                                  alignment_index>>
  /\ UNCHANGED <<mode, query_sequence, sequence, gap_penalty,
                 reverse_complement_sequence, pass, seq_X, seq_Y, Z, found,
                 stop_X, stop_Y, smith_waterman_score,
                 reverse_complement_smith_waterman_score, out, nuc_call, line_call, report_call>>
  /\ UNCHANGED scan_vars
  /\ UNCHANGED main_vars

\* after the loop: the terminating NULs and the reversal in place.  A byte at
\* alignment_index that the loop never wrote holds whatever malloc left there.
TraceFinish ==
  /\ pc = "finish"
  /\ \E ux \in (IF Len(trace_X) < alignment_index + 1 THEN UninitBytes ELSE {NUL}),
        uy \in (IF Len(trace_Y) < alignment_index + 1 THEN UninitBytes ELSE {NUL}) :
       /\ trace_X' = swap_loop(IF Len(trace_X) < alignment_index + 1
                               THEN Append(trace_X, ux) ELSE trace_X,
                               alignment_index, 0)
       /\ trace_Y' = swap_loop(IF Len(trace_Y) < alignment_index + 1
                               THEN Append(trace_Y, uy) ELSE trace_Y,
                               alignment_index, 0)
  /\ pc' = IF mode = "example" THEN "print" ELSE "return"
  /\ UNCHANGED <<mode, query_sequence, sequence, gap_penalty,
                 reverse_complement_sequence, pass, seq_X, seq_Y, Z, found,
                 stop_X, stop_Y, start_X, start_Y, score, alignment_index,
                 smith_waterman_score,
                 reverse_complement_smith_waterman_score, out, nuc_call, line_call, report_call>>
  /\ UNCHANGED scan_vars
  /\ UNCHANGED main_vars

\* what a record of the output carries
record(label, id, score_field, c, tx, ty, quality, body) ==
      [pass |-> label, sequence_id |-> id, score |-> score_field,
       length |-> Len(tx),
       identical |-> c.identical, gaps |-> c.gaps_X + c.gaps_Y,
       mismatches |-> c.mismatches, trace_X |-> tx, trace_Y |-> ty,
       end_X |-> start_X, end_Y |-> start_Y, quality |-> quality,
       body |-> body]

\* example program: the two printf of the indices and of the alignments
ExamplePrint ==
  /\ pc = "print"
  /\ out' = Append(out, record("example", <<>>,
                               cell(Z, Len(seq_Y), stop_X, stop_Y),
                               no_counts,
                               c_string(trace_X), c_string(trace_Y),
                               <<>>, <<>>))
  /\ Z' = <<>>
  /\ pc' = "done"
  /\ UNCHANGED <<mode, query_sequence, sequence, gap_penalty,
                 reverse_complement_sequence, pass, seq_X, seq_Y, found,
                 stop_X, stop_Y, start_X, start_Y, score, alignment_index,
                 trace_X, trace_Y, smith_waterman_score,
                 reverse_complement_smith_waterman_score, nuc_call, line_call, report_call>>
  /\ UNCHANGED scan_vars
  /\ UNCHANGED main_vars

\* get_linear_gap_smith_waterman_score(): score = Z[stop], free(Z), return;
\* the caller stores the result in the variable of the current pass
ReturnScore ==
  /\ pc = "return"
  /\ IF pass = "forward"
     THEN /\ smith_waterman_score' = cell(Z, Len(seq_Y), stop_X, stop_Y)
          /\ UNCHANGED reverse_complement_smith_waterman_score
     ELSE /\ reverse_complement_smith_waterman_score' =
               cell(Z, Len(seq_Y), stop_X, stop_Y)
          /\ UNCHANGED smith_waterman_score
  /\ Z' = <<>>
  /\ pc' = "emit"
  /\ UNCHANGED <<mode, query_sequence, sequence, gap_penalty,
                 reverse_complement_sequence, pass, seq_X, seq_Y, found,
                 stop_X, stop_Y, start_X, start_Y, score, alignment_index,
                 trace_X, trace_Y, out, nuc_call, line_call, report_call>>
  /\ UNCHANGED scan_vars
  /\ UNCHANGED main_vars

\* the score argument of the fprintf of a TSV row
tsv_score_field == smith_waterman_score

\* the score argument of generate_int_linear_gap_penalty_pair_alignment()
pair_score_field ==
  IF pass = "forward" THEN smith_waterman_score
                      ELSE reverse_complement_smith_waterman_score

\* the frees and the next turn of the loop straight after any record
after_record_skips_reverse ==
  /\ sequence' = NULL
  /\ sequence_id' = NULL
  /\ phred_scores' = NULL
  /\ current_index' = current_index + 1
  /\ pc' = "scan"
  /\ UNCHANGED <<pass, seq_X>>

\* after a record: the frees, then the reverse-complement alignment of the
\* same read, or the frees of the three lines and the next turn of the loop
AfterRecord ==
  IF pass = "forward"
  THEN /\ pass' = "reverse"
       /\ seq_X' = c_string(reverse_complement_sequence)
       /\ pc' = "call"
       /\ UNCHANGED <<sequence, sequence_id, phred_scores, current_index>>
  ELSE /\ sequence' = NULL
       /\ sequence_id' = NULL
       /\ phred_scores' = NULL
       /\ current_index' = current_index + 1
       /\ pc' = "scan"
       /\ UNCHANGED <<pass, seq_X>>

\* the values the byte at offset k of the phred_scores allocation may have
phred_reads(k) ==
  IF k < Len(phred_scores) THEN {phred_scores[k + 1]} ELSE StrayBytes

\* first offset and length of the memcpy into alignment_phred_scores
phred_copy_start == start_Y
alignment_phred_scores_length == (stop_Y - start_Y) + 1

\* the contents alignment_phred_scores may have after the memcpy
phred_copies ==
  {q \in [1..alignment_phred_scores_length ->
            UNION {phred_reads((phred_copy_start + k) - 1) :
                     k \in 1..alignment_phred_scores_length}] :
     \A k \in 1..alignment_phred_scores_length :
       q[k] \in phred_reads((phred_copy_start + k) - 1)}

\* handle_fastq_tsv(): the copy of the quality characters,
\* count_mismatches() and the fprintf of one row
EmitTsvRow ==
  /\ pc = "emit"
  /\ mode = "tsv"
  /\ IF strlen(trace_X) # strlen(trace_Y)
     THEN \* assert(strlen(trace_X) == strlen(trace_Y))
          /\ pc' = "abort"
          /\ UNCHANGED <<out, pass, seq_X, sequence, sequence_id,
                         phred_scores, current_index>>
     ELSE /\ \E alignment_phred_scores \in phred_copies :
               out' = Append(out, record(pass, c_string(sequence_id),
                                         tsv_score_field,
                                         count_mismatches(c_string(trace_X),
                                                          c_string(trace_Y)),
                                         c_string(trace_X), c_string(trace_Y),
                                         c_string(alignment_phred_scores),
                                         <<>>))
          /\ AfterRecord
  /\ UNCHANGED <<mode, query_sequence, gap_penalty,
                 reverse_complement_sequence, seq_Y, Z, found, stop_X, stop_Y,
                 start_X, start_Y, score, alignment_index, trace_X, trace_Y,
                 smith_waterman_score,
                 reverse_complement_smith_waterman_score, fastq_data,
                 line_count, last_newline, nuc_call, line_call, report_call>>
  /\ UNCHANGED main_vars

\* handle_fastq_pair(): the formatter call, whose trace_X and trace_Y are
\* the caller's query_sequence_alignment and sequence_alignment, and the
\* fprintf of one block
EmitPairBlock ==
  /\ pc = "emit"
  /\ mode = "pair"
  /\ IF \/ strlen(trace_X) # strlen(trace_Y)
        \/ strlen(sequence_id) <= 1
        \/ strlen(fasta_sequence_identifier) <= 1
     THEN \* assert(strlen(trace_X) == strlen(trace_Y)) and the two
          \* assertions on the identifiers
          /\ pc' = "abort"
          /\ UNCHANGED <<out, pass, seq_X, sequence, sequence_id,
                         phred_scores, current_index>>
     ELSE /\ out' = Append(out, record(pass, c_string(sequence_id),
                                       pair_score_field,
                                       count_mismatches(c_string(trace_X),
                                                        c_string(trace_Y)),
                                       c_string(trace_X), c_string(trace_Y),
                                       <<>>,
                                       pair_alignment_body(c_string(trace_Y),
                                                           c_string(trace_X))))
          /\ AfterRecord
  /\ UNCHANGED <<mode, query_sequence, gap_penalty,
                 reverse_complement_sequence, seq_Y, Z, found, stop_X, stop_Y,
                 start_X, start_Y, score, alignment_index, trace_X, trace_Y,
                 smith_waterman_score,
                 reverse_complement_smith_waterman_score, fastq_data,
                 line_count, last_newline, nuc_call, line_call, report_call>>
  /\ UNCHANGED main_vars

Next ==
  \/ HandlerStart
  \/ ScanLine
  \/ Fill
  \/ Locate
  \/ TraceStep
  \/ TraceFinish
  \/ ExamplePrint
  \/ ReturnScore
  \/ EmitTsvRow
  \/ EmitPairBlock

Spec == Init /\ [][Next]_vars

\* ------------------------------------- the best-cell locator on its own
\* any matrix of non-negative values of shape 0..MaxDim x 0..MaxDim
LocatorInputs ==
  {[mode |-> "example", X |-> X, Y |-> Y, gap |-> LINEAR_GAP_PENALTY,
    fastq |-> <<>>] :
     X \in SeqsOf({Ord.A}, 0, MaxDim), Y \in SeqsOf({Ord.A}, 0, MaxDim)}

InitLocator ==
  \E in \in LocatorInputs :
    \E Zm \in [1..(Len(in.X) * Len(in.Y)) -> 0..MaxVal], x0 \in 0..1, y0 \in 0..1 :
      InitWith(in, "locate", Zm, x0, y0)

SpecLocator == InitLocator /\ [][Locate]_vars

\* ------------------------------------------ the complementer on its own
ComplementInputs ==
  {[mode |-> "tsv", X |-> X, Y |-> <<>>, gap |-> DEFAULT_GAP_PENALTY,
    fastq |-> one_read(<<Ord.A>>)] :
     X \in SeqsOf(SequenceAlphabet, 1, MaxRcLen)}

InitComplement ==
  \E in \in ComplementInputs : InitWith(in, "start", <<>>, 0, 0)

SpecComplement == InitComplement /\ [][HandlerStart]_vars

\* ------------------------------------------- the table lookup on its own
\* int64_t EDNAFULL_NUC_4_4[8100]
TABLE_ENTRIES == Len(EDNAFULL_NUC_4_4)
\* the ASCII byte codes
AsciiBytes == 0..127
\* values an int64_t read past the end of the table may hold
StrayValues == {0, 1}

\* get_nuc_4_4_value(a, b): the index and the read of EDNAFULL_NUC_4_4[index]
GetNucValue ==
  /\ pc = "get_nuc"
  /\ LET index == nuc_4_4_index(nuc_call.a, nuc_call.b)
     IN  \E value \in (IF index < TABLE_ENTRIES
                       THEN {EDNAFULL_NUC_4_4[index + 1]}
                       ELSE StrayValues) :
           nuc_call' = [nuc_call EXCEPT !.index = index, !.value = value]
  /\ pc' = "got_nuc"
  /\ UNCHANGED <<line_call, report_call>>
  /\ UNCHANGED <<mode, query_sequence, sequence, gap_penalty,
                 reverse_complement_sequence, pass, smith_waterman_score,
                 reverse_complement_smith_waterman_score, out>>
  /\ UNCHANGED align_vars
  /\ UNCHANGED scan_vars
  /\ UNCHANGED main_vars

InitNuc ==
  \E a \in AsciiBytes, b \in AsciiBytes :
    InitAll([Blank EXCEPT !.mode = "tsv", !.pc = "get_nuc",
                          !.nuc_call = [a |-> a, b |-> b, index |-> 0,
                                        value |-> 0]])

SpecNuc == InitNuc /\ [][GetNucValue]_vars

\* ------------------------------------------------ main() up to a handler
\* the values of enum-like output flags; any other value is "OTHER"
OUTPUT_TSV == "OUTPUT_TSV"
OUTPUT_PAIR == "OUTPUT_PAIR"
\* values the local output_flag, declared without an initialiser, may hold
IndeterminateFlags == {OUTPUT_TSV, OUTPUT_PAIR, "OTHER"}

\* sscanf(optarg, "%lld", gap_penalty): EOF on an empty string, no
\* conversion on text that is not a number, else the number
GapArguments == {"", "x", "0", "2", "-3"}
sscanf_lld(text) ==
  CASE text = "" -> [result |-> "EOF", converted |-> FALSE, value |-> 0]
    [] text = "0" -> [result |-> "1", converted |-> TRUE, value |-> 0]
    [] text = "2" -> [result |-> "1", converted |-> TRUE, value |-> 2]
    [] text = "-3" -> [result |-> "1", converted |-> TRUE, value |-> -3]
    [] OTHER -> [result |-> "0", converted |-> FALSE, value |-> 0]

\* strstr(name, ".fq") != NULL || strstr(name, ".fastq") != NULL
FileNames == {"reads.fastq", "reads.fq", "reads.txt"}
names_fastq(name) == name \in {"reads.fastq", "reads.fq"}

\* the command lines main() is started with
CommandLines ==
  [type : {"none", "tsv", "pair", "xml"},
   query : {"none", "", "q.fasta"},
   gap : {"none"} \cup GapArguments,
   files : SeqsOf(FileNames, 0, 1) \cup {<<"reads.fq", "reads.fq">>}]

\* what parse_ednafull_linear_smith_waterman_options() returns
parse_result(args) ==
  IF \/ args.type = "xml"
     \/ args.query = ""
     \/ (args.gap # "none" /\ sscanf_lld(args.gap).result = "EOF")
     \/ args.query = "none"
     \/ Len(args.files) # 1
  THEN 1
  ELSE IF names_fastq(args.files[1]) THEN 0 ELSE 1

\* main(): the declarations and parse_ednafull_linear_smith_waterman_options();
\* output_flag is written only by a --type option
ParseOptions ==
  /\ pc = "main"
  /\ output_flag' = IF argv.type = "tsv" THEN OUTPUT_TSV
                    ELSE IF argv.type = "pair" THEN OUTPUT_PAIR
                    ELSE output_flag
  /\ gap_penalty' = IF argv.gap # "none" /\ sscanf_lld(argv.gap).converted
                    THEN sscanf_lld(argv.gap).value
                    ELSE gap_penalty
  /\ parse_status' = parse_result(argv)
  /\ pc' = IF parse_result(argv) = 0 THEN "read_query" ELSE "exit"
  /\ UNCHANGED <<mode, query_sequence, sequence,
                 reverse_complement_sequence, pass, smith_waterman_score,
                 reverse_complement_smith_waterman_score, out, argv,
                 fasta_data, fasta_sequence_identifier, nuc_call, line_call, report_call>>
  /\ UNCHANGED align_vars
  /\ UNCHANGED scan_vars

\* main(): read_file() and extract_fasta_sequence() of the query file
ReadQuery ==
  /\ pc = "read_query"
  /\ LET r == extract_fasta_sequence(c_string(fasta_data))
     IN  /\ fasta_sequence_identifier' = r.fasta_sequence_identifier
         /\ query_sequence' = r.sequence
         /\ pc' = IF r.sequence = NULL THEN "no_query" ELSE "dispatch"
  /\ UNCHANGED <<mode, sequence, gap_penalty, reverse_complement_sequence,
                 pass, smith_waterman_score,
                 reverse_complement_smith_waterman_score, out, argv,
                 output_flag, parse_status, fasta_data, nuc_call, line_call, report_call>>
  /\ UNCHANGED align_vars
  /\ UNCHANGED scan_vars

\* main(): the choice of the handler by output_flag
Dispatch ==
  /\ pc = "dispatch"
  /\ IF output_flag = OUTPUT_TSV
     THEN mode' = "tsv" /\ pc' = "start"
     ELSE IF output_flag = OUTPUT_PAIR
          THEN mode' = "pair" /\ pc' = "start"
          ELSE mode' = mode /\ pc' = "no_output_type"
  /\ UNCHANGED <<query_sequence, sequence, gap_penalty,
                 reverse_complement_sequence, pass, smith_waterman_score,
                 reverse_complement_smith_waterman_score, out, nuc_call, line_call, report_call>>
  /\ UNCHANGED align_vars
  /\ UNCHANGED scan_vars
  /\ UNCHANGED main_vars

\* the query files of the runs of main(): one with a sequence, one without
QueryFiles ==
  {<<GREATER, 113, LF, Ord.A, Ord.T, LF>>, <<GREATER, 113, LF>>}

InitMain ==
  \E args \in CommandLines, flag \in IndeterminateFlags, f \in QueryFiles :
    InitAll([Blank EXCEPT !.mode = "main", !.pc = "main", !.argv = args,
                          !.output_flag = flag, !.fasta_data = f,
                          !.fasta_sequence_identifier = NULL,
                          !.query_sequence = NULL,
                          !.fastq_data = one_read(<<Ord.A>>)])

NextMain ==
  \/ ParseOptions
  \/ ReadQuery
  \/ Dispatch

SpecMain == InitMain /\ [][NextMain]_vars

\* ------------------------------------------- the FASTA reader on its own
\* the bytes query files are made of
FastaBytes == {GREATER, SEMICOLON, LF, CR, Ord.A, Ord.C}
FastaTexts == SeqsOf(FastaBytes, 0, MaxFastaLen)

InitFasta ==
  \E f \in FastaTexts :
    InitAll([Blank EXCEPT !.mode = "main", !.pc = "read_query",
                          !.fasta_data = f,
                          !.fasta_sequence_identifier = NULL,
                          !.query_sequence = NULL])

SpecFasta == InitFasta /\ [][ReadQuery]_vars

\* --------------------------------------- count_mismatches() on any traces
\* the characters of an alignment string
TraceBytes == {Ord.A, Ord.T, GAP}
TraceStrings == SeqsOf(TraceBytes, 0, MaxTraceLen)

\* handle_fastq_tsv() about to count the columns of two alignment strings
InitCount ==
  \E tx \in TraceStrings, ty \in TraceStrings :
    InitAll([Blank EXCEPT !.mode = "tsv", !.pc = "emit",
                          !.trace_X = tx \o <<NUL>>,
                          !.trace_Y = ty \o <<NUL>>,
                          !.sequence_id = read_identifier(1) \o <<NUL>>,
                          !.phred_scores = quality_line(1) \o <<NUL>>,
                          !.reverse_complement_sequence = <<NUL>>])

SpecCount == InitCount /\ [][EmitTsvRow]_vars

\* ------------------------------------- the read loop on lines of any length
\* the bytes of the lines: a base, '\r' and '\n', so that texts hold empty
\* lines, lines of a lone '\r' and lines ended by "\r\n"
LineBytes == {Ord.A, CR, LF}
LineTexts == SeqsOf(LineBytes, 0, MaxLineText)

\* handle_fastq_tsv() at the head of its read loop
InitLine ==
  \E f \in LineTexts :
    InitAll([Blank EXCEPT !.mode = "tsv", !.pc = "scan",
                          !.query_sequence = <<Ord.A>>,
                          !.reverse_complement_sequence = <<Ord.T>>,
                          !.fastq_data = f])

SpecLine == InitLine /\ [][ScanLine]_vars

\* ------------------- the pair formatter on alignments of several segments
\* alignment strings of n columns: equal bases throughout, a gap in the
\* read every third column, or a gap in the query every seventh column and
\* a different base every second column, or a run of gaps in the read or
\* in the query that fills the second segment
AlignmentKinds ==
  {"equal", "read_gaps", "query_gaps", "read_gap_run", "query_gap_run"}

in_gap_run(k) == k > SEGMENT_COLUMNS /\ k <= 2 * SEGMENT_COLUMNS

read_column(kind, k) ==
  IF \/ kind = "read_gaps" /\ k % 3 = 0
     \/ kind = "read_gap_run" /\ in_gap_run(k)
  THEN GAP ELSE Ord.A

query_column(kind, k) ==
  IF kind = "query_gaps"
  THEN IF k % 7 = 0 THEN GAP ELSE IF k % 2 = 0 THEN Ord.T ELSE Ord.A
  ELSE IF kind = "query_gap_run" /\ in_gap_run(k) THEN GAP ELSE Ord.A

\* handle_fastq_pair() about to format sequence_alignment (trace_X) and
\* query_sequence_alignment (trace_Y)
InitFormatter ==
  \E n \in 0..MaxAlignmentLen, kind \in AlignmentKinds :
    InitAll([Blank EXCEPT
               !.mode = "pair", !.pc = "emit",
               !.trace_X = [k \in 1..n |-> query_column(kind, k)] \o <<NUL>>,
               !.trace_Y = [k \in 1..n |-> read_column(kind, k)] \o <<NUL>>,
               !.sequence_id = read_identifier(1) \o <<NUL>>,
               !.phred_scores = quality_line(1) \o <<NUL>>,
               !.reverse_complement_sequence = <<NUL>>])

SpecFormatter == InitFormatter /\ [][EmitPairBlock]_vars

\* --------------------------------- the size of the pair report on its own
\* identifier lines: "@1", "@read 1", " 1" (its first token is empty) and
\* "@" (refused by the assertion on its length)
ReportIdentifiers ==
  {<<AT, 49>>, <<AT, 114, 101, 97, 100, SPACE, 49>>, <<SPACE, 49>>, <<AT>>}
\* ">q" and ">query"
ReportQueryIdentifiers ==
  {QUERY_IDENTIFIER, <<GREATER, 113, 117, 101, 114, 121>>}
\* "" and "EDNAFULL"
MatrixNames == {<<>>, <<69, 68, 78, 65, 70, 85, 76, 76>>}
\* numerals of 64-bit values, INT64_MAX and INT64_MIN among them
Int64Numerals ==
  {"0", "16", "-1", "9223372036854775807", "-9223372036854775808"}
GapNumerals == {"16", "-9223372036854775808"}
\* no column, one column, a full segment, one column more, and the longest
ReportLengths ==
  {0, 1, SEGMENT_COLUMNS, SEGMENT_COLUMNS + 1, MaxAlignmentLen}

\* generate_int_linear_gap_penalty_pair_alignment() about to run
InitReport ==
  \E id \in ReportIdentifiers, qid \in ReportQueryIdentifiers,
     matrix \in MatrixNames, n \in ReportLengths, kind \in AlignmentKinds,
     sc \in Int64Numerals, gap \in GapNumerals :
    InitAll([Blank EXCEPT
               !.mode = "pair", !.pc = "report",
               !.report_call =
                 [sequence_identifier |-> id,
                  query_sequence_identifier |-> qid,
                  substitution_matrix_name |-> matrix,
                  trace_X |-> [k \in 1..n |-> query_column(kind, k)],
                  trace_Y |-> [k \in 1..n |-> read_column(kind, k)],
                  score |-> sc, gap_penalty |-> gap,
                  size |-> 0, written |-> 0]])

\* generate_int_linear_gap_penalty_pair_alignment(): the assertions, the
\* size of the allocation and the bytes written into it.  The lengths of
\* the two token tails are read once for the size and again by sprintf().
GenerateReport ==
  /\ pc = "report"
  /\ LET c == report_call
     IN  IF \/ Len(c.trace_X) # Len(c.trace_Y)
            \/ Len(c.sequence_identifier) <= 1
            \/ Len(c.query_sequence_identifier) <= 1
         THEN /\ pc' = "abort"
              /\ UNCHANGED report_call
         ELSE \E size_1 \in token_tail_lengths(c.sequence_identifier),
                 size_2 \in token_tail_lengths(c.query_sequence_identifier),
                 id_1 \in token_tail_lengths(c.sequence_identifier),
                 id_2 \in token_tail_lengths(c.query_sequence_identifier),
                 nan_length \in NanLengths :
                /\ report_call' =
                     [c EXCEPT
                        !.size = report_size(
                                   size_1, size_2,
                                   Len(c.substitution_matrix_name),
                                   Len(c.trace_X)),
                        !.written = report_written(
                                      IF size_1 > size_2 THEN size_1
                                                         ELSE size_2,
                                      id_1, id_2, c, nan_length)]
                /\ pc' = "reported"
  /\ UNCHANGED <<mode, query_sequence, sequence, gap_penalty,
                 reverse_complement_sequence, pass, smith_waterman_score,
                 reverse_complement_smith_waterman_score, out, nuc_call,
                 line_call>>
  /\ UNCHANGED align_vars
  /\ UNCHANGED scan_vars
  /\ UNCHANGED main_vars

SpecReport == InitReport /\ [][GenerateReport]_vars

\* ------------------------------------------------------------ properties
SetMax(S) == CHOOSE m \in S : \A t \in S : t <= m

len_X == Len(seq_X)
len_Y == Len(seq_Y)
Cells == {<<i, j>> \in (0..(len_X - 1)) \X (0..(len_Y - 1)) : TRUE}
ZAt(i, j) == cell(Z, len_Y, i, j)
SAt(i, j) ==
  get_substitution_matrix_value(substitution, seq_X[i + 1], seq_Y[j + 1])

\* the matrix of the current alignment is filled and not yet released
MatrixFilled == pc \in {"locate", "trace", "finish", "print", "return"}

\* the right-hand side of the recurrence at cell (i, j)
Recurrence(i, j) ==
  SetMax({0}
         \cup (IF j >= 1 THEN {ZAt(i, j - 1) - gap_penalty} ELSE {})
         \cup (IF i >= 1 THEN {ZAt(i - 1, j) - gap_penalty} ELSE {})
         \cup (IF i >= 1 /\ j >= 1 THEN {ZAt(i - 1, j - 1) + SAt(i, j)}
                                   ELSE {SAt(i, j)}))

\* C1: after linear_gap_smith_waterman every cell (i,j), stored at offset
\* i*len_Y+j, equals max(0, left - G, up - G, diagonal + s) with the terms
\* whose predecessor lies outside the matrix dropped and the diagonal term
\* replaced by s alone in row 0 and column 0.
C1_Recurrence ==
  MatrixFilled =>
    /\ Len(Z) = len_X * len_Y
    /\ \A c \in Cells : ZAt(c[1], c[2]) = Recurrence(c[1], c[2])

\* an interior cell whose value comes from the left gap term alone, and one
\* in row 0 whose value comes from the substitution score alone
C1_Witness ==
  /\ pc = "locate"
  /\ \E c \in Cells :
       /\ c[1] >= 1 /\ c[2] >= 1
       /\ ZAt(c[1], c[2]) > 0
       /\ ZAt(c[1], c[2]) = ZAt(c[1], c[2] - 1) - gap_penalty
       /\ ZAt(c[1], c[2]) > ZAt(c[1] - 1, c[2] - 1) + SAt(c[1], c[2])
       /\ ZAt(c[1], c[2]) > ZAt(c[1] - 1, c[2]) - gap_penalty
  /\ \E c \in Cells :
       /\ c[1] = 0 /\ c[2] >= 1
       /\ ZAt(0, c[2]) = SAt(0, c[2])
       /\ ZAt(0, c[2]) > ZAt(0, c[2] - 1) - gap_penalty

\* the three predecessor tests at the cell the walk stands on
LeftReproduces ==
  ZAt(start_X, start_Y - 1) - gap_penalty = ZAt(start_X, start_Y)
DiagonalReproduces ==
  ZAt(start_X - 1, start_Y - 1) + SAt(start_X, start_Y) = ZAt(start_X, start_Y)
UpReproduces ==
  ZAt(start_X - 1, start_Y) - gap_penalty = ZAt(start_X, start_Y)

\* what each step leaves behind in the next state
LeftStepTaken ==
  /\ trace_X'[alignment_index + 1] = GAP
  /\ trace_Y'[alignment_index + 1] = seq_Y[start_Y + 1]
  /\ start_X' = start_X /\ start_Y' = start_Y - 1
DiagonalStepTaken ==
  /\ trace_X'[alignment_index + 1] = seq_X[start_X + 1]
  /\ trace_Y'[alignment_index + 1] = seq_Y[start_Y + 1]
  /\ \/ start_X' = start_X - 1 /\ start_Y' = start_Y - 1
     \/ start_X' = start_X /\ start_Y' = start_Y /\ pc' = "finish"
UpStepTaken ==
  /\ trace_X'[alignment_index + 1] = seq_X[start_X + 1]
  /\ trace_Y'[alignment_index + 1] = GAP
  /\ start_X' = start_X - 1 /\ start_Y' = start_Y

\* C2: at an interior cell with Z[i,j] # 0 the walk takes the left-gap step
\* if the left predecessor reproduces Z[i,j], otherwise the diagonal step if
\* the diagonal does, otherwise the up-gap step if the upper one does.
C2_Priority ==
  [][(pc = "trace" /\ start_X >= 1 /\ start_Y >= 1 /\ ZAt(start_X, start_Y) # 0)
       => /\ LeftReproduces => LeftStepTaken
          /\ (~LeftReproduces /\ DiagonalReproduces) => DiagonalStepTaken
          /\ (~LeftReproduces /\ ~DiagonalReproduces /\ UpReproduces)
               => UpStepTaken]_vars

\* a left-gap step was just taken from a cell (start_X, start_Y + 1) where the
\* diagonal reproduced the score as well
C2_Witness ==
  /\ pc = "trace"
  /\ alignment_index >= 1
  /\ trace_X[alignment_index] = GAP
  /\ start_X >= 1
  /\ start_Y + 1 < len_Y
  /\ ZAt(start_X, start_Y) - gap_penalty = ZAt(start_X, start_Y + 1)
  /\ ZAt(start_X - 1, start_Y) + SAt(start_X, start_Y + 1)
       = ZAt(start_X, start_Y + 1)

ScenarioA ==
  /\ mode = "example"
  /\ seq_X = example_a
  /\ seq_Y = example_b
  /\ gap_penalty = LINEAR_GAP_PENALTY

\* C3 as stated: in scenario A the locator returns (6,4) and Z[6,4] = 13
C3_AsStated ==
  (ScenarioA /\ pc = "trace") =>
    (stop_X = 6 /\ stop_Y = 4 /\ ZAt(6, 4) = 13)

\* C3: in scenario A the locator returns (i,j) = (6,5) and Z[6,5] = 13
C3_BestCell ==
  (ScenarioA /\ pc = "trace") =>
    (found /\ stop_X = 6 /\ stop_Y = 5 /\ ZAt(6, 5) = 13)

C3_Witness == ScenarioA /\ pc = "trace" /\ alignment_index = 0 /\ score = 13

\* C4: in scenario A the traceback from the locator's cell returns
\* trace_X = "GTTGAC" and trace_Y = "GTT-AC"
C4_ScenarioTrace ==
  (ScenarioA /\ pc \in {"print", "done"}) =>
    /\ c_string(trace_X) = Str(<<"G", "T", "T", "G", "A", "C">>)
    /\ c_string(trace_Y) = Str(<<"G", "T", "T">>) \o <<GAP>> \o Str(<<"A", "C">>)
    /\ pc = "done" => /\ out[1].trace_X = c_string(trace_X)
                      /\ out[1].trace_Y = c_string(trace_Y)

C4_Witness == ScenarioA /\ pc = "done" /\ Len(out) = 1 /\ out[1].length = 6

\* get_linear_gap_smith_waterman_score() has just returned to the driver
Returned == mode \in {"tsv", "pair"} /\ pc = "emit"
ReturnedScore ==
  IF pass = "forward" THEN smith_waterman_score
                      ELSE reverse_complement_smith_waterman_score

RECURSIVE SumSelf(_)
SumSelf(S) ==
  IF S = <<>> THEN 0
  ELSE get_nuc_4_4_value(Head(S), Head(S)) + SumSelf(Tail(S))

\* the read is aligned against an identical reference
SelfAlignment == Returned /\ pass = "forward" /\ seq_X = seq_Y

RoundTrip ==
  /\ c_string(trace_X) = seq_X
  /\ c_string(trace_Y) = seq_X
  /\ ReturnedScore = SumSelf(seq_X)
  /\ LET c == count_mismatches(c_string(trace_X), c_string(trace_Y))
     IN  /\ c.gaps_X = 0 /\ c.gaps_Y = 0
         /\ c.mismatches = 0
         /\ c.identical = Len(seq_X)

\* C5 as stated: aligning any non-empty S of the sequence alphabet against
\* itself returns both traces equal to S, the sum of the self scores, no gap
\* and no mismatch
C5_AsStated == SelfAlignment => RoundTrip

PositiveSelfScore == {Ord.A, Ord.C, Ord.G, Ord.T}

\* C5: aligning a non-empty S made of the bases A, C, G, T (the bases whose
\* NUC4.4 self score is positive) against itself returns both traces equal
\* to S, the sum of the self scores, no gap and no mismatch
C5_RoundTrip ==
  (SelfAlignment /\ \A k \in 1..Len(seq_X) : seq_X[k] \in PositiveSelfScore)
    => RoundTrip

C5_Witness ==
  /\ SelfAlignment
  /\ seq_X = Str(<<"A", "C", "G", "T">>)
  /\ gap_penalty = DEFAULT_GAP_PENALTY
  /\ ReturnedScore = 20
  /\ c_string(trace_X) = seq_X
  /\ count_mismatches(c_string(trace_X), c_string(trace_Y)).identical = 4

NoPositivePair == \A c \in Cells : SAt(c[1], c[2]) <= 0

\* C6 as stated: when no pair of characters scores positively the returned
\* score is 0, the locator returns (0,0) and the trace is the single column
\* (X[0], Y[0])
C6_AsStated ==
  (Returned /\ NoPositivePair) =>
    /\ ReturnedScore = 0
    /\ stop_X = 0 /\ stop_Y = 0
    /\ strlen(trace_X) = 1 /\ strlen(trace_Y) = 1
    /\ trace_X[1] = seq_X[1]
    /\ trace_Y[1] = seq_Y[1]

\* ------------------------------------------------------------------- C7
\* C7: on a non-empty matrix the locator reports the cell of lowest
\* row-major index among the cells holding the maximum of Z; with len_X = 0
\* or len_Y = 0 it reports false and leaves the output indices as they were
C7_FirstMaximum ==
  /\ [](pc # "locate" /\ pc # "start" /\ pc # "call" =>
          /\ found <=> (len_X > 0 /\ len_Y > 0)
          /\ (found /\ Z # <<>>) =>
               LET best == (stop_X * len_Y) + stop_Y
               IN  /\ stop_X \in 0..(len_X - 1)
                   /\ stop_Y \in 0..(len_Y - 1)
                   /\ \A k \in 0..(Len(Z) - 1) :
                        /\ Z[k + 1] <= Z[best + 1]
                        /\ k < best => Z[k + 1] < Z[best + 1])
  /\ [][(pc = "locate" /\ (len_X = 0 \/ len_Y = 0)) =>
          (~found' /\ stop_X' = stop_X /\ stop_Y' = stop_Y)]_vars

\* the maximum is held by several cells and the first of them, which is not
\* cell 0, is the one reported
C7_Witness ==
  /\ pc = "trace"
  /\ found
  /\ (stop_X * len_Y) + stop_Y > 0
  /\ \E k \in 0..(Len(Z) - 1) :
       k > (stop_X * len_Y) + stop_Y /\ Z[k + 1] = ZAt(stop_X, stop_Y)

\* ------------------------------------------------------------------- C8
RECURSIVE StripGaps(_)
StripGaps(t) ==
  IF t = <<>> THEN <<>>
  ELSE IF Head(t) = GAP THEN StripGaps(Tail(t))
       ELSE <<Head(t)>> \o StripGaps(Tail(t))

Traced == pc \in {"print", "return", "emit"}

\* C8 as stated: after traceback the traces without their '-' are
\* seq_X[end_X..stop_X] and seq_Y[end_Y..stop_Y]
C8_AsStated ==
  Traced =>
    /\ StripGaps(c_string(trace_X)) = SubSeq(seq_X, start_X + 1, stop_X + 1)
    /\ StripGaps(c_string(trace_Y)) = SubSeq(seq_Y, start_Y + 1, stop_Y + 1)

\* ------------------------------------------------------------------- C9
\* Z at the best cell of the alignment of X against Y under NUC4.4
best_score(X, Y, gap) ==
  LET Zm == linear_gap_smith_waterman(X, Y, "nuc44", gap)
      r == best_linear_gap_smith_waterman_score_indices(Len(X), Len(Y), Zm, 0, 0)
  IN  cell(Zm, Len(Y), r.x, r.y)

\* the lines of a file: the pieces between '\n' characters, the piece after
\* the last '\n' included when it is not empty
RECURSIVE SplitFrom(_, _)
SplitFrom(data, from) ==
  IF from >= Len(data) THEN <<>>
  ELSE LET at == next_newline(data, from)
       IN  <<SubSeq(data, from + 1, at)>> \o SplitFrom(data, at + 1)

InputLines == SplitFrom(fastq_data, 0)

StripCR(line) ==
  IF line # <<>> /\ line[Len(line)] = CR
  THEN SubSeq(line, 1, Len(line) - 1) ELSE line

\* the four-line records of the input file, numbered from 0
InputRecords == Len(InputLines) \div 4
InputRecord(r) ==
  [identifier |-> StripCR(InputLines[(4 * r) + 1]),
   sequence |-> StripCR(InputLines[(4 * r) + 2]),
   quality |-> StripCR(InputLines[(4 * r) + 4])]

\* the read the k-th output record belongs to when records come in order
ReadOfRecord(k) == InputRecord((k - 1) \div 2)

\* C9 as stated: the score field of every record is Z at the best cell of
\* the alignment of that record's pass
C9_AsStated ==
  \A k \in 1..Len(out) :
    /\ out[k].pass = "forward" =>
         out[k].score = best_score(query_sequence, ReadOfRecord(k).sequence,
                                   gap_penalty)
    /\ out[k].pass = "reverse" =>
         out[k].score = best_score(c_string(reverse_complement_sequence),
                                   ReadOfRecord(k).sequence, gap_penalty)

\* ------------------------------------------------------------------ C10
IupacComplementUpper(c) ==
  CASE c = Ord.A -> Ord.T [] c = Ord.T -> Ord.A [] c = Ord.U -> Ord.A
    [] c = Ord.C -> Ord.G [] c = Ord.G -> Ord.C
    [] c = Ord.R -> Ord.Y [] c = Ord.Y -> Ord.R
    [] c = Ord.K -> Ord.M [] c = Ord.M -> Ord.K
    [] c = Ord.S -> Ord.S [] c = Ord.W -> Ord.W
    [] c = Ord.B -> Ord.V [] c = Ord.V -> Ord.B
    [] c = Ord.D -> Ord.H [] c = Ord.H -> Ord.D
    [] c = Ord.N -> Ord.N

IupacComplement(c) ==
  IF c \in UpperBases THEN IupacComplementUpper(c)
  ELSE IupacComplementUpper(c - LowerOffset) + LowerOffset

\* C10 as stated: every base of the sequence alphabet, upper or lower case,
\* is complemented to its IUPAC complement in the same case, never to NUL
C10_AsStated ==
  pc = "scan" /\ line_count = 0 /\ mode # "example" =>
    \A k \in 1..Len(query_sequence) :
      LET r == reverse_complement_sequence[Len(query_sequence) - k + 1]
      IN  r # NUL /\ r = IupacComplement(query_sequence[k])


\* ------------------------------------------------------------------ C11
\* C11 as stated: for every pair of ASCII bytes (a, b) the index a + 90*b
\* lies inside the 8100-entry table and the value returned is 0 whenever a
\* or b is outside the sequence alphabet
C11_AsStated ==
  pc = "got_nuc" =>
    /\ nuc_call.index < TABLE_ENTRIES
    /\ (nuc_call.a \notin SequenceAlphabet \/ nuc_call.b \notin SequenceAlphabet)
         => nuc_call.value = 0

\* ------------------------------------------------------------------ C12
\* C12: after linear_gap_smith_waterman every cell of Z is >= 0
C12_NonNegative ==
  MatrixFilled => \A c \in Cells : ZAt(c[1], c[2]) >= 0

\* an interior cell held at 0 by the floor alone: its three candidates are
\* all negative
C12_Witness ==
  /\ pc = "locate"
  /\ \E c \in Cells :
       /\ c[1] >= 1 /\ c[2] >= 1
       /\ ZAt(c[1], c[2]) = 0
       /\ ZAt(c[1], c[2] - 1) - gap_penalty < 0
       /\ ZAt(c[1] - 1, c[2]) - gap_penalty < 0
       /\ ZAt(c[1] - 1, c[2] - 1) + SAt(c[1], c[2]) < 0

\* ------------------------------------------------------------------ C13
\* the maximum of the substitution function over all pairs: the score of a
\* pair of identical standard bases
MaxSubstitution ==
  get_substitution_matrix_value(substitution, Ord.A, Ord.A)

\* C13 as stated: Z[i,j] <= Z[i,j-1] + M for every row i and column j >= 1
C13_AsStated ==
  MatrixFilled =>
    \A c \in Cells :
      c[2] >= 1 => ZAt(c[1], c[2]) <= ZAt(c[1], c[2] - 1) + MaxSubstitution

\* C13: Z[i,j] <= Z[i,j-1] + M + G for every row i and column j >= 1, with
\* M the maximum of the substitution function and G the gap penalty
C13_RowBound ==
  MatrixFilled =>
    \A c \in Cells :
      c[2] >= 1 =>
        ZAt(c[1], c[2]) <= ZAt(c[1], c[2] - 1) + MaxSubstitution + gap_penalty

\* a cell that meets the bound M + G with G > 0: a match on the diagonal
\* next to a cell reached by an up-gap
C13_Witness ==
  /\ pc = "locate"
  /\ gap_penalty > 0
  /\ \E c \in Cells :
       /\ c[1] >= 1 /\ c[2] >= 1
       /\ ZAt(c[1], c[2])
            = ZAt(c[1], c[2] - 1) + MaxSubstitution + gap_penalty
       /\ ZAt(c[1], c[2] - 1) = ZAt(c[1] - 1, c[2] - 1) - gap_penalty

\* ------------------------------------------------------------------ C14
Driver == mode \in {"tsv", "pair"}

\* the records written so far are, in this order, the forward and the
\* reverse-complement record of the first reads of the input
InInputOrder ==
  \A k \in 1..Len(out) :
    /\ k <= 2 * InputRecords
    /\ out[k].pass = (IF k % 2 = 1 THEN "forward" ELSE "reverse")
    /\ out[k].sequence_id = ReadOfRecord(k).identifier

\* C14: the records written are always a prefix of forward(r1),
\* reverse-complement(r1), forward(r2), reverse-complement(r2), ..., and a
\* step only ever appends one record to the ones already written
C14_InputOrder ==
  /\ [](Driver => InInputOrder)
  /\ [][Driver => \/ out' = out
                   \/ /\ Len(out') = Len(out) + 1
                      /\ SubSeq(out', 1, Len(out)) = out]_vars

\* a run over two reads has written its four records
C14_Witness ==
  /\ Driver
  /\ pc = "done"
  /\ InputRecords = 2
  /\ Len(out) = 4
  /\ out[2].sequence_id = read_identifier(1)
  /\ out[3].sequence_id = read_identifier(2)

\* ------------------------------------------------------------------ C15
\* the forward alignment of a read starts: the three lines just taken
ReadTaken == Driver /\ pc = "call" /\ pass = "forward"

\* C15 as stated: lines 4k+1, 4k+2 and 4k+4 are taken as identifier,
\* sequence and quality of record k, and when the handler returns every
\* record of the file has its two output records, whether or not the last
\* line ends with a newline
C15_AsStated ==
  /\ ReadTaken =>
       LET r == InputRecord((line_count \div 4) - 1)
       IN  /\ c_string(sequence_id) = r.identifier
           /\ c_string(sequence) = r.sequence
           /\ c_string(phred_scores) = r.quality
  /\ (Driver /\ pc = "done") => Len(out) = 2 * InputRecords

\* ------------------------------------------------------------------ C16
\* the alignment the last row was written for is still the current one
RowWritten ==
  mode = "tsv" /\ Len(out) >= 1 /\ pc \in {"call", "locate", "scan", "done"}

LastRow == out[Len(out)]

\* C16 as stated: the base-quality field of a row is
\* quality[sequence_start .. sequence_stop] of the read's quality line, of
\* length sequence_stop - sequence_start + 1, which is the number of
\* characters other than '-' of the read's aligned string in that row
C16_AsStated ==
  RowWritten =>
    LET quality == ReadOfRecord(Len(out)).quality
    IN  /\ Len(quality) >= stop_Y + 1
        /\ LastRow.quality = SubSeq(quality, start_Y + 1, stop_Y + 1)
        /\ Len(LastRow.quality) = (stop_Y - start_Y) + 1
        /\ Len(LastRow.quality) = Len(StripGaps(LastRow.trace_Y))

\* ------------------------------------------------------------------ C17
\* C17 as stated: a command line without --type that is otherwise valid
\* runs handle_fastq_tsv
C17_AsStated ==
  (argv.type = "none" /\ pc \in {"start", "no_output_type"})
    => (pc = "start" /\ mode = "tsv")

\* ------------------------------------------------------------------ C18
FastaLines == SplitFrom(fasta_data, 0)
IsIdentifier(l) == l # <<>> /\ l[1] = GREATER
IsComment(l) == l # <<>> /\ l[1] = SEMICOLON
IsBlank(l) == StripCR(l) = <<>>

\* the identifier line of the first record: only empty lines and comments
\* come before it
HasFirstRecord ==
  \E i \in 1..Len(FastaLines) :
    /\ IsIdentifier(FastaLines[i])
    /\ \A k \in 1..(i - 1) : FastaLines[k] = <<>> \/ IsComment(FastaLines[k])
FirstRecord ==
  CHOOSE i \in 1..Len(FastaLines) :
    /\ IsIdentifier(FastaLines[i])
    /\ \A k \in 1..(i - 1) : ~IsIdentifier(FastaLines[k])

\* the sequence lines from line i on, up to the next identifier, the first
\* blank line or the end of the data, comments skipped
RECURSIVE SequenceFrom(_, _)
SequenceFrom(lines, i) ==
  IF i > Len(lines) THEN <<>>
  ELSE IF IsIdentifier(lines[i]) \/ IsBlank(lines[i]) THEN <<>>
  ELSE IF IsComment(lines[i]) THEN SequenceFrom(lines, i + 1)
  ELSE StripCR(lines[i]) \o SequenceFrom(lines, i + 1)

\* C18 as stated: for a text whose first record has sequence lines,
\* extract_fasta_sequence returns the identifier line of that record and
\* the concatenation, in order, of its sequence lines without their '\r'
C18_AsStated ==
  (/\ pc \in {"dispatch", "no_query"}
   /\ HasFirstRecord
   /\ SequenceFrom(FastaLines, FirstRecord + 1) # <<>>)
    => /\ pc = "dispatch"
       /\ c_string(fasta_sequence_identifier)
            = StripCR(FastaLines[FirstRecord])
       /\ query_sequence = SequenceFrom(FastaLines, FirstRecord + 1)

\* ---------------------------------------------------------------- C19
\* the columns k of two alignment strings that satisfy a condition
ColumnsWhere(tx, ty, P(_, _)) ==
  Cardinality({k \in 1..Len(tx) : P(tx[k], ty[k])})

IsIdenticalColumn(a, b) == a = b /\ a # GAP
IsMismatchColumn(a, b) == a # b \/ (a = GAP /\ b = GAP)
HasGapX(a, b) == a = GAP
HasGapY(a, b) == b = GAP

ColumnCounts(tx, ty) ==
  [identical |-> ColumnsWhere(tx, ty, IsIdenticalColumn),
   gaps_X |-> ColumnsWhere(tx, ty, HasGapX),
   gaps_Y |-> ColumnsWhere(tx, ty, HasGapY),
   mismatches |-> ColumnsWhere(tx, ty, IsMismatchColumn)]

\* C19: for two alignment strings of equal length, count_mismatches()
\* counts a column of two '-' in gaps_X, gaps_Y and mismatches, a column of
\* two equal characters other than '-' in identical, and any other column
\* in mismatches and in gaps_X or gaps_Y when its trace_X or trace_Y
\* character is '-'; the TSV row carries identical, gaps_X + gaps_Y and
\* mismatches
C19_ColumnCounts ==
  /\ (pc = "emit" /\ mode = "tsv" /\ strlen(trace_X) = strlen(trace_Y))
       => count_mismatches(c_string(trace_X), c_string(trace_Y))
            = ColumnCounts(c_string(trace_X), c_string(trace_Y))
  /\ mode = "tsv" =>
       \A k \in 1..Len(out) :
         LET n == ColumnCounts(out[k].trace_X, out[k].trace_Y)
         IN /\ out[k].identical = n.identical
            /\ out[k].gaps = n.gaps_X + n.gaps_Y
            /\ out[k].mismatches = n.mismatches

\* a row is written for strings with a column of two '-', a column with one
\* '-' and a column of two equal bases
C19_Witness ==
  /\ mode = "tsv"
  /\ \E k \in 1..Len(out) :
       /\ \E c \in 1..Len(out[k].trace_X) :
            out[k].trace_X[c] = GAP /\ out[k].trace_Y[c] = GAP
       /\ \E c \in 1..Len(out[k].trace_X) :
            out[k].trace_X[c] = GAP /\ out[k].trace_Y[c] # GAP
       /\ out[k].identical = 1
       /\ out[k].gaps = 3
       /\ out[k].mismatches = 2

\* ---------------------------------------------------------------- C20
\* the segments of a block lie end to end from column 0 to column L - 1 and
\* carry those columns of the two alignment strings
SegmentsCover(body, formatted_X, formatted_Y) ==
  /\ body # <<>> => body[1].first_column = 0
  /\ \A s \in 1..Len(body) :
       /\ body[s].first_column + body[s].columns
            = (IF s < Len(body) THEN body[s + 1].first_column
               ELSE Len(formatted_X))
       /\ body[s].text_X = SubSeq(formatted_X, body[s].first_column + 1,
                                  body[s].first_column + body[s].columns)
       /\ body[s].text_Y = SubSeq(formatted_Y, body[s].first_column + 1,
                                  body[s].first_column + body[s].columns)
       /\ Len(body[s].markers) = body[s].columns
  /\ body = <<>> => Len(formatted_X) = 0

\* C20: for an alignment of L columns the pair formatter writes L div 50
\* segments of 50 columns, then one segment of L mod 50 columns exactly
\* when L mod 50 > 0, and the segments cover columns 0..L-1 once, in order
C20_Segments ==
  mode = "pair" =>
    \A k \in 1..Len(out) :
      LET L == Len(out[k].trace_X)
          body == out[k].body
      IN  /\ Len(body) = (L \div 50) + (IF L % 50 > 0 THEN 1 ELSE 0)
          /\ \A s \in 1..(L \div 50) : Len(body[s].text_X) = 50
          /\ L % 50 > 0 => Len(body[Len(body)].text_X) = L % 50
          /\ SegmentsCover(body, out[k].trace_Y, out[k].trace_X)

\* an alignment of 75 columns is written as a segment of 50 columns and a
\* segment of 25 columns
C20_Witness ==
  /\ mode = "pair"
  /\ \E k \in 1..Len(out) :
       /\ Len(out[k].trace_X) = 75
       /\ Len(out[k].body) = 2
       /\ Len(out[k].body[1].text_X) = 50
       /\ Len(out[k].body[2].text_X) = 25
       /\ out[k].body[2].first_column = 50

\* ---------------------------------------------------------------- C21
\* the pair blocks written so far, with the two strings as the formatter
\* receives them
PairBlocks ==
  {[body |-> out[k].body, formatted_X |-> out[k].trace_Y,
    formatted_Y |-> out[k].trace_X] : k \in {j \in 1..Len(out) : mode = "pair"}}

\* number of characters other than '-' among columns lo + 1 .. hi of t
BasesIn(t, lo, hi) == Cardinality({c \in (lo + 1)..hi : t[c] # GAP})

SegmentEnd(seg) == seg.first_column + seg.columns

PreviousEnd_X(body, s) == IF s = 1 THEN 0 ELSE body[s - 1].current_X
PreviousEnd_Y(body, s) == IF s = 1 THEN 0 ELSE body[s - 1].current_Y

\* C21: in every body segment and for each trace, the end coordinate is the
\* number of non-gap characters of the trace up to and including the
\* segment, and the start coordinate is prev + 1 if the segment holds a
\* non-gap character of the trace and prev otherwise, prev being the end
\* coordinate of the segment before (0 for the first)
C21_Coordinates ==
  \A b \in PairBlocks :
    \A s \in 1..Len(b.body) :
      LET seg == b.body[s]
      IN  /\ seg.current_X = BasesIn(b.formatted_X, 0, SegmentEnd(seg))
          /\ seg.current_Y = BasesIn(b.formatted_Y, 0, SegmentEnd(seg))
          /\ seg.starting_X =
               (IF BasesIn(b.formatted_X, seg.first_column, SegmentEnd(seg)) > 0
                THEN PreviousEnd_X(b.body, s) + 1
                ELSE PreviousEnd_X(b.body, s))
          /\ seg.starting_Y =
               (IF BasesIn(b.formatted_Y, seg.first_column, SegmentEnd(seg)) > 0
                THEN PreviousEnd_Y(b.body, s) + 1
                ELSE PreviousEnd_Y(b.body, s))

\* a block of three segments whose second segment holds only gaps of one
\* trace, and so starts where the first one ended
C21_Witness ==
  \E b \in PairBlocks :
    /\ Len(b.body) = 3
    /\ BasesIn(b.formatted_Y, 50, 100) = 0
    /\ b.body[1].current_Y = 50
    /\ b.body[2].starting_Y = 50
    /\ b.body[2].current_Y = 50
    /\ b.body[3].starting_Y = 51

\* ---------------------------------------------------------------- C22
\* C22 as stated: after the first segment, a segment's start coordinate is
\* the previous segment's end coordinate + 1 whenever the trace had a
\* non-gap character in the previous segment
C22_AsStated ==
  \A b \in PairBlocks :
    \A s \in 2..Len(b.body) :
      /\ BasesIn(b.formatted_X, b.body[s - 1].first_column,
                 SegmentEnd(b.body[s - 1])) > 0
           => b.body[s].starting_X = b.body[s - 1].current_X + 1
      /\ BasesIn(b.formatted_Y, b.body[s - 1].first_column,
                 SegmentEnd(b.body[s - 1])) > 0
           => b.body[s].starting_Y = b.body[s - 1].current_Y + 1

\* C22 amended: after the first segment, a segment's start coordinate is
\* the previous segment's end coordinate + 1 whenever the trace has a
\* non-gap character in the segment itself, and the previous segment's end
\* coordinate when it has none
C22_StartAfterPrevious ==
  \A b \in PairBlocks :
    \A s \in 2..Len(b.body) :
      /\ b.body[s].starting_X - b.body[s - 1].current_X =
           (IF \E c \in (b.body[s].first_column + 1)..SegmentEnd(b.body[s]) :
                 b.formatted_X[c] # GAP
            THEN 1 ELSE 0)
      /\ b.body[s].starting_Y - b.body[s - 1].current_Y =
           (IF \E c \in (b.body[s].first_column + 1)..SegmentEnd(b.body[s]) :
                 b.formatted_Y[c] # GAP
            THEN 1 ELSE 0)

\* a second segment with bases of both traces follows a first segment with
\* bases of both traces
C22_Witness ==
  \E b \in PairBlocks :
    /\ Len(b.body) >= 2
    /\ b.body[1].current_X > 0
    /\ b.body[1].current_Y > 0
    /\ b.body[2].starting_X = b.body[1].current_X + 1
    /\ b.body[2].starting_Y = b.body[1].current_Y + 1
    /\ b.body[2].current_X < b.body[2].current_Y

\* ---------------------------------------------------------------- C23
\* the walk is at an interior cell and its loop is about to run its body
AtInteriorCell ==
  pc = "trace" /\ score # 0 /\ start_X > 0 /\ start_Y > 0

\* C23: on a matrix filled by linear_gap_smith_waterman() with G >= 0, a
\* walk started at the located best cell never takes the branch in which no
\* rule matches: at every interior cell it visits with a non-zero score, one
\* of the three predecessor rules reproduces Z[i,j]
C23_RuleMatches ==
  (AtInteriorCell /\ gap_penalty >= 0)
    => /\ trace_rule(seq_X, seq_Y, Z, start_X, start_Y, substitution,
                     gap_penalty) \in {"left", "diagonal", "up"}
       /\ LeftReproduces \/ DiagonalReproduces \/ UpReproduces

\* the walk stands at an interior cell after a step and only the third rule,
\* the gap above, reproduces the score
C23_Witness ==
  /\ AtInteriorCell
  /\ alignment_index > 0
  /\ trace_rule(seq_X, seq_Y, Z, start_X, start_Y, substitution,
                gap_penalty) = "up"

\* ---------------------------------------------------------------- C27
\* the walk is under way or over, its traces not yet released
TracesAllocated == pc \in {"trace", "finish", "print", "return", "emit"}

\* C27: for non-empty sequences and G >= 0 the walk started at the located
\* cell (stop_X, stop_Y) moves towards row 0 or column 0 with every column
\* it writes, so it writes at most stop_X + stop_Y + 1 columns and every
\* byte it stores, the NUL at index alignment_index + 1 included, lies
\* inside the stop_X + stop_Y + 3 bytes allocated for each trace
C27_WithinAllocation ==
  (TracesAllocated /\ gap_penalty >= 0 /\ seq_X # <<>> /\ seq_Y # <<>>)
    => /\ alignment_index + start_X + start_Y <= stop_X + stop_Y
       /\ alignment_index + 1 <= stop_X + stop_Y + 1
       /\ alignment_index + 1 < stop_X + stop_Y + 3
       /\ Len(trace_X) <= alignment_index + 1
       /\ Len(trace_Y) <= alignment_index + 1

\* a finished walk of three columns or more with a gap among them
C27_Witness ==
  /\ pc \in {"print", "return"}
  /\ gap_penalty >= 0
  /\ alignment_index >= 2
  /\ Len(trace_X) = alignment_index + 1
  /\ \E k \in 1..Len(trace_X) : trace_X[k] = GAP \/ trace_Y[k] = GAP

\* ---------------------------------------------------------------- C28
\* the walk is over and the matrix not yet released
WalkFinished == pc \in {"print", "return"}

\* the score of one alignment column
ColumnScore(a, b) ==
  IF a = GAP \/ b = GAP THEN 0 - gap_penalty
  ELSE get_substitution_matrix_value(substitution, a, b)

\* the sum of the column scores of columns 1 .. n of two alignment strings
RECURSIVE AlignmentScore(_, _, _)
AlignmentScore(tx, ty, n) ==
  IF n = 0 THEN 0
  ELSE AlignmentScore(tx, ty, n - 1) + ColumnScore(tx[n], ty[n])

\* C28 as stated: for non-empty sequences and G >= 0, a positive returned
\* score equals the score of the returned alignment, the sum over its
\* columns of s(trace_X[k], trace_Y[k]) for gap-free columns and of -G for
\* columns with a '-'
C28_AsStated ==
  (WalkFinished /\ gap_penalty >= 0 /\ ZAt(stop_X, stop_Y) > 0)
    => /\ strlen(trace_X) = strlen(trace_Y)
       /\ ZAt(stop_X, stop_Y)
            = AlignmentScore(c_string(trace_X), c_string(trace_Y),
                             strlen(trace_X))

\* ---------------------------------------------------------------- C29
\* C29: for non-empty sequences and G >= 0, when the returned score is
\* positive neither the first nor the last column of the returned alignment
\* holds a '-': the walk from the first row-major maximum does not begin
\* with a gap step and ends on a gap-free column
C29_GapFreeEnds ==
  (WalkFinished /\ gap_penalty >= 0 /\ ZAt(stop_X, stop_Y) > 0)
    => LET last == alignment_index + 1
       IN  /\ Len(trace_X) = last /\ Len(trace_Y) = last
           /\ trace_X[1] # GAP /\ trace_Y[1] # GAP
           /\ trace_X[last] # GAP /\ trace_Y[last] # GAP

\* a finished walk with G = 0 whose best score stands again in a later cell
\* of the matrix, and an alignment of two columns or more
C29_Witness ==
  /\ WalkFinished
  /\ gap_penalty = 0
  /\ ZAt(stop_X, stop_Y) > 0
  /\ \E c \in Cells :
       /\ (c[1] * len_Y) + c[2] > (stop_X * len_Y) + stop_Y
       /\ ZAt(c[1], c[2]) = ZAt(stop_X, stop_Y)
  /\ alignment_index >= 1

\* ---------------------------------------------------------------- C24
\* the quality line of the record is shorter than sequence_stop + 1
QualityLineShort ==
  pc = "emit" /\ mode = "tsv" /\ strlen(phred_scores) < stop_Y + 1

\* C24 as stated: when the quality line is shorter than sequence_stop + 1
\* characters the driver finds the quality substring out of bounds and
\* stops with an error, writing no row from bytes outside the quality line
C24_AsStated ==
  [][QualityLineShort => (out' = out /\ pc' \notin {"call", "scan", "emit"})]_vars

\* ---------------------------------------------------------------- C25
\* the handler has left its read loop at the end of the input
HandlerReturned == pc = "done" /\ mode \in {"tsv", "pair"}

\* C25 as stated, for the end of the input: when the handler stops, an
\* input ending in an incomplete record included, the identifier, sequence
\* and quality strings of the record it was reading have been released
C25_AsStated ==
  HandlerReturned =>
    (sequence_id = NULL /\ sequence = NULL /\ phred_scores = NULL)

\* ---------------------------------------------------------------- C30
\* the read loop has extracted a line
LineExtracted == line_call # no_line_call

\* C30 as stated: extract_line(data, idx, line_length) reads only
\* data[idx - line_length .. idx - 1] and accesses only the offsets
\* 0 .. line_length of the buffer it allocates, for every line length,
\* 0 included
C30_AsStated ==
  LineExtracted =>
    /\ line_call.reads \subseteq
         (line_call.idx - line_call.line_length)..(line_call.idx - 1)
    /\ line_call.accesses \subseteq 0..line_call.line_length

\* ---------------------------------------------------------------- C26
\* the formatter has written a report
ReportWritten == pc = "reported"

\* C26 as stated: for identifiers longer than one character, any matrix
\* name, traces of equal length and any 64-bit score and gap penalty, the
\* bytes written into the report buffer, the final NUL included, never
\* exceed the size computed before the allocation
C26_AsStated ==
  ReportWritten => report_call.written <= report_call.size

====
